---------------------------- MODULE Spec2Model ----------------------------
(***************************************************************************)
(* Model of package sd (github.com/aletheia7/sd): emission of structured   *)
(* records to the systemd journal.  The model follows sd.go as found in    *)
(* src/example_test.go, lines 27-795 (the version with options, a mirror   *)
(* writer and the remove_ansi_escape bit flags).                           *)
(*                                                                         *)
(* Strings and []byte values are sequences of byte values (0..255); a      *)
(* field name is such a sequence too, so that the validator, the encoder   *)
(* and the decoder work on bytes as the code does.                         *)
(***************************************************************************)
EXTENDS Naturals, Integers, Sequences, FiniteSets, TLC

(***************************************************************************)
(* Bounds of the model.                                                    *)
(***************************************************************************)
\* stand-in for sysconf(_SC_IOV_MAX) (1024 on Linux), scaled down to the
\* size of an emission with its location: MESSAGE, PRIORITY, GO_FUNC, GO_FILE
max_fields == 4
\* number of API calls one behaviour may start
MaxCalls == 3

Threads == {1, 2}

(***************************************************************************)
(* Byte strings.                                                           *)
(***************************************************************************)
ESC == 27
NL == 10
\* sd_field_name_sep_b = []byte{61}
sd_field_name_sep_b == <<61>>
sd_field_name_sep_s == sd_field_name_sep_b

Sd_message == <<77, 69, 83, 83, 65, 71, 69>>
sd_priority == <<80, 82, 73, 79, 82, 73, 84, 89>>
sd_message_id == <<77, 69, 83, 83, 65, 71, 69, 95, 73, 68>>
sd_go_func == <<71, 79, 95, 70, 85, 78, 67>>
sd_go_file == <<71, 79, 95, 70, 73, 76, 69>>

\* strconv.Itoa for the numbers the model formats (0..9)
Itoa(n) == <<48 + n>>

\* Priority(strconv.Itoa(int(syslog.LOG_*)))
Log_emerg == Itoa(0)
Log_alert == Itoa(1)
Log_crit == Itoa(2)
Log_err == Itoa(3)
Log_warning == Itoa(4)
Log_notice == Itoa(5)
Log_info == Itoa(6)
Log_debug == Itoa(7)

\* bit flags of remove_ansi_escape
Remove_journal == 1
Remove_writer == 2
HasBit(flags, bit) == (flags \div bit) % 2 = 1

(***************************************************************************)
(* Field values: interface{} holding a string, a []byte, a Priority or     *)
(* anything else (an int, nil, ...).                                       *)
(***************************************************************************)
Str(s) == [kind |-> "string", v |-> s]
Bytes(b) == [kind |-> "bytes", v |-> b]
Prio(p) == [kind |-> "Priority", v |-> p]
Other == [kind |-> "other", v |-> <<>>]

\* map[string]interface{} with no entry (a nil map reads the same)
EmptyMap == [k \in {} |-> Other]

\* m with m[k] = v
MapSet(m, k, v) == [x \in (DOMAIN m) \cup {k} |-> IF x = k THEN v ELSE m[x]]
\* delete(m, k)
MapDelete(m, k) == [x \in (DOMAIN m) \ {k} |-> m[x]]


(***************************************************************************)
(* valid_field = regexp.MustCompile(`^[^_]{1}[\p{Lu}0-9_]*$`), used as     *)
(* valid_field.FindString(k) == "" (no match).  Names are ASCII here, so   *)
(* \p{Lu} is 'A'..'Z'.                                                     *)
(***************************************************************************)
IsUpper(c) == c >= 65 /\ c <= 90
IsDigit(c) == c >= 48 /\ c <= 57
Underscore == 95

\* valid_field without the rule for the first character
valid_field_any_first(k) ==
    /\ Len(k) >= 1
    /\ \A i \in 1..Len(k) : IsUpper(k[i]) \/ IsDigit(k[i]) \/ k[i] = Underscore

valid_field(k) ==
    /\ Len(k) >= 1
    /\ k[1] # Underscore
    /\ \A i \in 2..Len(k) : IsUpper(k[i]) \/ IsDigit(k[i]) \/ k[i] = Underscore

(***************************************************************************)
(* remove_re2 = regexp.MustCompile(`\x1b[^m]*m`), used as                  *)
(* remove_re2.ReplaceAllLiteralString(s, ``): every ESC up to and          *)
(* including the next 'm' is removed; an ESC with no 'm' after it stays.   *)
(***************************************************************************)
LetterM == 109

RECURSIVE remove_re2(_)
remove_re2(s) ==
    IF s = <<>> THEN <<>>
    ELSE IF s[1] = ESC /\ \E i \in 2..Len(s) : s[i] = LetterM
         THEN LET i == CHOOSE x \in 2..Len(s) :
                          /\ s[x] = LetterM
                          /\ \A y \in 2..(x - 1) : s[y] # LetterM
              IN remove_re2(SubSeq(s, i + 1, Len(s)))
         ELSE <<s[1]>> \o remove_re2(Tail(s))

(***************************************************************************)
(* Journal.copy: later maps win; a string, Priority or []byte value is     *)
(* copied only when it is not empty, any other kind of value is skipped.   *)
(***************************************************************************)
\* the type switch of copy without its 0 < len(t) conditions
CopyKept_any_length(v) == v.kind \in {"Priority", "string", "bytes"}

CopyKept(v) == v.kind \in {"Priority", "string", "bytes"} /\ Len(v.v) > 0

CopyInto(dest, m) ==
    LET kept == {k \in DOMAIN m : CopyKept(m[k])}
    IN [k \in (DOMAIN dest) \cup kept |-> IF k \in kept THEN m[k] ELSE dest[k]]

RECURSIVE CopyFrom(_, _)
CopyFrom(dest, maps) ==
    IF maps = <<>> THEN dest
    ELSE CopyFrom(CopyInto(dest, Head(maps)), Tail(maps))

copy(maps) == CopyFrom(EmptyMap, maps)

(***************************************************************************)
(* Journal.a_to_map: every "NAME=value" string of the array becomes an     *)
(* entry (strings.SplitN(s, "=", 2)); a string without '=' is skipped; a   *)
(* later string with the same name replaces an earlier one.                *)
(***************************************************************************)
HasSep(s) == \E i \in 1..Len(s) : s[i] = sd_field_name_sep_b[1]
FirstSep(s) == CHOOSE i \in 1..Len(s) :
                   /\ s[i] = sd_field_name_sep_b[1]
                   /\ \A y \in 1..(i - 1) : s[y] # sd_field_name_sep_b[1]
\* strings.SplitN(s, "=", 2) when s holds a '='
SplitName(s) == SubSeq(s, 1, FirstSep(s) - 1)
SplitValue(s) == SubSeq(s, FirstSep(s) + 1, Len(s))

RECURSIVE a_to_map_from(_, _)
a_to_map_from(ret, fields) ==
    IF fields = <<>> THEN ret
    ELSE LET s == Head(fields)
         IN a_to_map_from(IF HasSep(s)
                          THEN MapSet(ret, SplitName(s), Str(SplitValue(s)))
                          ELSE ret,
                          Tail(fields))

a_to_map(fields) == a_to_map_from(EmptyMap, fields)

(***************************************************************************)
(* file_line(skip): the caller's location, or ("", "", 0) when the stack   *)
(* has fewer than skip frames.  A call site is [fn, file, line, frames].   *)
(***************************************************************************)
NoLocation == [fn |-> <<>>, file |-> <<>>, line |-> 0]

file_line(skip, site) ==
    IF site.frames < skip THEN NoLocation
    ELSE [fn |-> site.fn, file |-> site.file, line |-> site.line]

\* file + `:` + strconv.Itoa(line)
GoFile(loc) == loc.file \o <<58>> \o Itoa(loc.line)


(***************************************************************************)
(* Results of Send.                                                        *)
(***************************************************************************)
\* return nil
Nil == [kind |-> "nil"]
\* errors.New(fmt.Sprintf("Field count cannot exceed %v: %v given", max_fields, len(fields)))
ErrCapacity(max, given) == [kind |-> "capacity", max |-> max, given |-> given]
\* fmt.Errorf("field violates regexp %v : %v", valid_field, k)
ErrField(k) == [kind |-> "field", key |-> k]
\* fmt.Errorf("Error: Unsupported field value: key = %v", k)
ErrUnsupported(k) == [kind |-> "unsupported", key |-> k]
\* errors.New("Error with sd_journal_sendv arguments")
ErrSendv == [kind |-> "sendv"]

\* sd_journal_sendv was not called
NoSend == [n |-> -1, iov |-> EmptyMap]

(***************************************************************************)
(* One struct iovec of Send's loop: string and Priority values through     *)
(* C.CString(k + "=" + t), a []byte value through                          *)
(* C.CBytes(bytes.Join([][]byte{[]byte(k), t}, sd_field_name_sep_b)); in   *)
(* both cases iov_len is the length of the Go value.                       *)
(***************************************************************************)
Supported(v) == v.kind \in {"string", "Priority", "bytes"}

Iovec(k, v) ==
    LET b == IF v.kind = "bytes"
             THEN k \o sd_field_name_sep_b \o v.v
             ELSE k \o sd_field_name_sep_s \o v.v
    IN [iov_base |-> b, iov_len |-> Len(b)]

\* the bytes the transport reads from one struct iovec
IovBytes(r) == SubSeq(r.iov_base, 1, r.iov_len)

(***************************************************************************)
(* Send, from the capacity check to the return (the part of Send that      *)
(* runs when journal output is not disabled).  The result is the set of    *)
(* outcomes [fields, ret, sent] the call can have: the map is ranged in    *)
(* an unspecified order, so any offending key can be the one reported,     *)
(* and sd_journal_sendv may succeed (ok) or fail.                          *)
(***************************************************************************)
AddGoCodeFields(fields, loc) ==
    MapSet(MapSet(fields, sd_go_func, Str(loc.fn)), sd_go_file, Str(GoFile(loc)))

Offending(fields) ==
    {k \in DOMAIN fields : ~valid_field(k) \/ ~Supported(fields[k])}

EncodeError(fields, k) ==
    IF ~valid_field(k) THEN ErrField(k) ELSE ErrUnsupported(k)

\* the capacity check moved by one: max_fields + 1 < len(fields)
CapacityExceeded_off_by_one(fields) == max_fields + 1 < Cardinality(DOMAIN fields)

CapacityExceeded(fields) == max_fields < Cardinality(DOMAIN fields)

SendRecords(fields, add_go_code_fields, loc) ==
    IF CapacityExceeded(fields)
    THEN {[fields |-> fields,
           ret |-> ErrCapacity(max_fields, Cardinality(DOMAIN fields)),
           sent |-> NoSend]}
    ELSE LET tagged == IF add_go_code_fields
                       THEN AddGoCodeFields(fields, loc)
                       ELSE fields
             iov == [k \in DOMAIN tagged |-> Iovec(k, tagged[k])]
         IN IF Offending(tagged) # {}
            THEN {[fields |-> tagged, ret |-> EncodeError(tagged, k), sent |-> NoSend] :
                      k \in Offending(tagged)}
            ELSE {[fields |-> tagged,
                   ret |-> IF ok THEN Nil ELSE ErrSendv,
                   sent |-> [n |-> Cardinality(DOMAIN tagged), iov |-> iov]] :
                      ok \in BOOLEAN}


(***************************************************************************)
(* The mirror writer.  default_color holds ansi.ColorCode("red+bh") =      *)
(* ESC[1;91m and ansi.ColorCode("208+bh") = ESC[1;38;5;208m; a priority    *)
(* with no entry reads the zero Writer_option.                             *)
(***************************************************************************)
RedBoldHigh == <<ESC, 91, 49, 59, 57, 49, LetterM>>
OrangeBoldHigh == <<ESC, 91, 49, 59, 51, 56, 59, 53, 59, 50, 48, 56, LetterM>>
\* ansi.Reset = "\033[0m"
Reset == <<ESC, 91, 48, LetterM>>

default_color(p) ==
    IF p \in {Log_alert, Log_crit, Log_err}
    THEN [Color |-> RedBoldHigh, Include_file |-> TRUE]
    ELSE IF p \in {Log_warning, Log_notice}
         THEN [Color |-> OrangeBoldHigh, Include_file |-> TRUE]
         ELSE [Color |-> <<>>, Include_file |-> FALSE]

default_use_color == TRUE

\* fmt.Sprintf("%v:%v ", f, l)
FileLineText(loc) == loc.file \o <<58>> \o Itoa(loc.line) \o <<32>>

\* what Send writes to w: fmt.Fprintf(w, "%v%v%v%v", color, line, text, reset)
MirrorLine(p, add_go_code_fields, loc, text) ==
    LET opt == default_color(p)
        line == IF opt.Include_file /\ add_go_code_fields
                THEN FileLineText(loc)
                ELSE <<>>
        reset == IF 0 < Len(opt.Color) THEN Reset ELSE <<>>
    IN IF default_use_color
       THEN opt.Color \o line \o text \o reset
       ELSE text


(***************************************************************************)
(* State.  Package level: id128, default_writer,                           *)
(* default_remove_ansi_escape, default_disable_journal, package_lock.      *)
(* One shared *Journal: default_fields, lock, add_go_code_fields, writer,  *)
(* stack_skip, remove, priority.  th[t] holds the goroutine t's position   *)
(* in the call it is making, the call's arguments and locals, and what     *)
(* the call returned and handed to sd_journal_sendv and to the writer.     *)
(* calls counts the API calls started.                                     *)
(***************************************************************************)
VARIABLES id128, default_writer, default_remove_ansi_escape,
          default_disable_journal, package_lock,
          default_fields, lock, add_go_code_fields, writer, stack_skip,
          remove, priority,
          th, calls,
          caller,
          send_stderr, default_send_stderr, stderr_call,
          plain, ansi_calls, color_call, fn, fn_call,
          opt_call

package_vars == <<id128, default_writer, default_remove_ansi_escape,
                  default_disable_journal>>
journal_vars == <<default_fields, add_go_code_fields, writer, stack_skip,
                  remove, priority>>
\* what the operations of the Journal modelled above leave alone: the
\* caller's buffer, and the stderr policy of the version of the package that
\* has one (Send of src/unnamed/part_000), and the ansi package
caller_vars == <<caller>>
stderr_vars == <<send_stderr, default_send_stderr, stderr_call>>
ansi_vars == <<plain, ansi_calls, color_call, fn, fn_call>>
option_vars == <<opt_call>>
apart_vars == <<caller_vars, stderr_vars, ansi_vars, option_vars>>
vars == <<id128, default_writer, default_remove_ansi_escape,
          default_disable_journal, package_lock,
          default_fields, lock, add_go_code_fields, writer, stack_skip,
          remove, priority, th, calls, caller,
          send_stderr, default_send_stderr, stderr_call,
          plain, ansi_calls, color_call, fn, fn_call, opt_call>>

\* a nil io.Writer, and the one writer of the model
NilWriter == "nil"
W == "w"

\* id128: nil, or map[string]interface{}{sd_message_id: uuid}
NilId == [nil |-> TRUE, m |-> EmptyMap]
IdOf(uuid) == [nil |-> FALSE, m |-> MapSet(EmptyMap, sd_message_id, Str(uuid))]

\* message_priority = map[string]interface{}{Sd_message: ``, sd_priority: ``}
message_priority ==
    MapSet(MapSet(EmptyMap, Sd_message, Str(<<>>)), sd_priority, Str(<<>>))

(***************************************************************************)
(* The inputs of the model.                                                *)
(***************************************************************************)
NameX == <<88>>
NameY == <<89>>

\* where goroutine t calls from
Site(t) == [fn |-> <<102>>, file |-> <<120>>, line |-> t, frames |-> 4]

\* the text the caller's arguments format to
Texts == {<<>>, <<97>>, <<ESC, 91, LetterM, 98>>}
\* fmt.Sprintln(a...) ends with a newline, fmt.Sprintf(format, a...) does not
Formatted(format, text) == IF format = "ln" THEN text \o <<NL>> ELSE text

Severities == {Log_emerg, Log_alert, Log_crit, Log_err,
               Log_warning, Log_notice, Log_info, Log_debug}
\* the severity methods the goroutines of the model call
EmitSeverities == {Log_alert, Log_info}

\* maps given to the _m and _m_f methods
OverlayMaps ==
    { EmptyMap,
      MapSet(EmptyMap, NameX, Str(<<111>>)),
      MapSet(MapSet(EmptyMap, NameX, Str(<<>>)), NameY, Bytes(<<>>)),
      MapSet(MapSet(EmptyMap, Sd_message, Str(<<122>>)), sd_priority, Str(<<57>>)),
      MapSet(EmptyMap, NameX, Other) }

\* arrays given to the _a and _a_f methods: "X=o"; "X=", "Y"; "MESSAGE=z"
OverlayArrays ==
    { <<NameX \o sd_field_name_sep_s \o <<111>>>>,
      <<NameX \o sd_field_name_sep_s, NameY>>,
      <<Sd_message \o sd_field_name_sep_s \o <<122>>>> }

\* maps given to New_journal_m
InitDefaults == {EmptyMap, MapSet(EmptyMap, NameX, Str(<<100>>))}

\* field names "F1", "F2", ...
Filler(i) == <<70, 48 + i>>
FillerMap(n) == [k \in {Filler(i) : i \in 1..n} |-> Str(<<118>>)]
MapUnion(a, b) == [k \in (DOMAIN a) \cup (DOMAIN b) |-> IF k \in DOMAIN b THEN b[k] ELSE a[k]]

\* entries that make a map given to Send interesting: a MESSAGE, a []byte
\* with a zero byte and a '=', names the validator rejects ("_A", "Aa"),
\* names it accepts ("=A", "a"), a value of an unsupported kind
SendExtras ==
    { EmptyMap,
      MapSet(EmptyMap, Sd_message, Str(<<97>>)),
      MapSet(EmptyMap, <<66>>, Bytes(<<97, 0, 61, 98>>)),
      MapSet(EmptyMap, <<95, 65>>, Str(<<118>>)),
      MapSet(EmptyMap, <<65, 97>>, Str(<<118>>)),
      MapSet(EmptyMap, <<61, 65>>, Bytes(<<118>>)),
      MapSet(EmptyMap, <<97>>, Str(<<118>>)),
      MapSet(EmptyMap, <<85>>, Other),
      MapSet(MapSet(EmptyMap, Sd_message, Str(<<97>>)), <<95, 65>>, Str(<<118>>)),
      MapSet(MapSet(EmptyMap, <<85>>, Other), <<95, 65>>, Str(<<118>>)) }

\* maps given to Send
SendMaps ==
    {MapUnion(FillerMap(n), e) : n \in 0..(max_fields + 1), e \in SendExtras}

\* type Send_stderr int (src/c/c.go, and sd.go of the version with Send_stderr)
Sd_send_stderr_allow_override == 0
Sd_send_stderr_true == 1
Sd_send_stderr_false == 2

\* no call of ansi.Color was made, no closure was made by ansi.ColorFunc, the
\* closure was not called
NoColorCall == [made |-> FALSE, s |-> <<>>, style |-> <<>>, ret |-> <<>>]
NoFn == [made |-> FALSE, style |-> <<>>, identity |-> FALSE, color |-> <<>>,
         plain |-> FALSE]
NoFnCall == [made |-> FALSE, s |-> <<>>, ret |-> <<>>]

\* no j.Option(opt) whose returned option is kept was called
NoOption == [kind |-> "none"]
NoOptCall == [stage |-> "none", opt |-> NoOption, previous |-> NoOption,
              before |-> <<>>]

\* nothing was written to os.Stderr
NoEcho == [written |-> FALSE, text |-> <<>>]
\* no call of the Send with a stderr policy was made
NoStderrCall == [made |-> FALSE, given |-> EmptyMap, ret |-> Nil, sent |-> NoSend,
                 stderr |-> NoEcho]

Idle == [pc |-> "idle", op |-> "none", message |-> <<>>, Priority |-> <<>>,
         overlay |-> EmptyMap, ref |-> "own", own |-> EmptyMap,
         given |-> EmptyMap, disable_journal |-> FALSE, w |-> NilWriter,
         cleaned_s |-> <<>>, tagging |-> FALSE, rm |-> 0, ret |-> Nil,
         sent |-> NoSend,
         mirror |-> <<>>]

(***************************************************************************)
(* New_journal_m(default_fields), with the package at its initial values.  *)
(***************************************************************************)
Init ==
    /\ id128 = NilId
    /\ default_writer = NilWriter
    /\ default_remove_ansi_escape = 0
    /\ default_disable_journal = FALSE
    /\ package_lock = 0
    /\ \E m \in InitDefaults : default_fields = copy(<<m, message_priority, id128.m>>)
    /\ lock = 0
    /\ add_go_code_fields = TRUE
    /\ writer = default_writer
    /\ stack_skip = 4
    /\ remove = default_remove_ansi_escape
    /\ priority = Log_info
    /\ th = [t \in Threads |-> Idle]
    /\ calls = 0
    /\ caller = [buf |-> <<97>>, aliased |-> {}, handed |-> EmptyMap]
    /\ send_stderr = Sd_send_stderr_allow_override
    /\ default_send_stderr = Sd_send_stderr_allow_override
    /\ stderr_call = NoStderrCall
    /\ plain = FALSE
    /\ ansi_calls = <<>>
    /\ color_call = NoColorCall
    /\ fn = NoFn
    /\ fn_call = NoFnCall
    /\ opt_call = NoOptCall


(***************************************************************************)
(* Journal.load_defaults(message, Priority): under j.lock, writes MESSAGE, *)
(* PRIORITY and MESSAGE_ID into j.default_fields and returns that map      *)
(* itself.                                                                 *)
(***************************************************************************)
\* load_defaults without delete(j.default_fields, sd_message_id)
load_defaults_keeps_id(fields, message, p, id) ==
    LET a == MapSet(MapSet(fields, Sd_message, Str(message)), sd_priority, Prio(p))
    IN IF id.nil THEN a ELSE MapSet(a, sd_message_id, id.m[sd_message_id])

load_defaults(fields, message, p, id) ==
    LET a == MapSet(MapSet(fields, Sd_message, Str(message)), sd_priority, Prio(p))
    IN IF id.nil
       THEN MapDelete(a, sd_message_id)
       ELSE MapSet(a, sd_message_id, id.m[sd_message_id])

\* a goroutine may start a call
MayCall(t) == th[t].pc = "idle"

(***************************************************************************)
(* Emerg .. Debug and Emergf .. Debugf:                                    *)
(*   j.Send(j.load_defaults(fmt.Sprintln(a...), Log_x))                    *)
(* This action is the evaluation of the argument; Send follows.            *)
(***************************************************************************)
Emit(t, texts, severities) ==
    /\ MayCall(t)
    /\ lock = 0
    /\ \E format \in {"ln", "f"}, text \in texts, p \in severities :
          /\ default_fields' = load_defaults(default_fields, Formatted(format, text), p, id128)
          /\ th' = [th EXCEPT ![t] = [Idle EXCEPT !.pc = "send", !.op = "plain",
                                           !.message = Formatted(format, text),
                                           !.Priority = p,
                                           !.ref = "default_fields"]]
    /\ UNCHANGED <<package_vars, package_lock, lock, add_go_code_fields, writer,
                   stack_skip, remove, priority>>

(***************************************************************************)
(* Emerg_m .. Debug_m and Emerg_m_f .. Debug_m_f:                          *)
(*   j.Send(j.copy(fields, j.load_defaults(fmt.Sprintf(format, a...), Log_x))) *)
(* This action is load_defaults; copy and Send follow.                     *)
(***************************************************************************)
Emit_m(t, texts, severities, maps) ==
    /\ MayCall(t)
    /\ lock = 0
    /\ \E format \in {"ln", "f"}, text \in texts, p \in severities,
          fields \in maps :
          /\ default_fields' = load_defaults(default_fields, Formatted(format, text), p, id128)
          /\ th' = [th EXCEPT ![t] = [Idle EXCEPT !.pc = "copy", !.op = "m",
                                           !.message = Formatted(format, text),
                                           !.Priority = p,
                                           !.overlay = fields]]
    /\ UNCHANGED <<package_vars, package_lock, lock, add_go_code_fields, writer,
                   stack_skip, remove, priority>>

(***************************************************************************)
(* Alert_a .. Debug_a and Alert_a_f .. Debug_a_f:                          *)
(*   j.Send(j.copy(j.a_to_map(fields), j.load_defaults(..., Log_x)))       *)
(***************************************************************************)
Emit_a(t, texts, severities, arrays) ==
    /\ MayCall(t)
    /\ lock = 0
    /\ \E format \in {"ln", "f"}, text \in texts, p \in severities,
          fields \in arrays :
          /\ default_fields' = load_defaults(default_fields, Formatted(format, text), p, id128)
          /\ th' = [th EXCEPT ![t] = [Idle EXCEPT !.pc = "copy", !.op = "a",
                                           !.message = Formatted(format, text),
                                           !.Priority = p,
                                           !.overlay = a_to_map(fields)]]
    /\ UNCHANGED <<package_vars, package_lock, lock, add_go_code_fields, writer,
                   stack_skip, remove, priority>>

(***************************************************************************)
(* j.copy(fields, defaults) of an _m or _a method: under j.lock, a new map *)
(* with the overlay first and the map load_defaults returned second.       *)
(***************************************************************************)
Copy(t) ==
    /\ th[t].pc = "copy"
    /\ lock = 0
    /\ th' = [th EXCEPT ![t].pc = "send",
                        ![t].ref = "own",
                        ![t].own = copy(<<th[t].overlay, default_fields>>)]
    /\ UNCHANGED <<package_vars, package_lock, journal_vars, lock>>

(***************************************************************************)
(* A caller's own j.Send(fields).                                          *)
(***************************************************************************)
CallSend(t, maps) ==
    /\ MayCall(t)
    /\ \E fields \in maps :
          th' = [th EXCEPT ![t] = [Idle EXCEPT !.pc = "send", !.op = "send",
                                        !.ref = "own", !.own = fields]]
    /\ UNCHANGED <<package_vars, package_lock, journal_vars, lock>>


(***************************************************************************)
(* Journal.Send(fields), in the steps at which it takes and releases       *)
(* locks.  Fields(t) is the map the call works on: j.default_fields        *)
(* itself for the methods without overlay, the map copy returned or the    *)
(* caller's map otherwise.                                                 *)
(***************************************************************************)
Fields(t) == IF th[t].ref = "default_fields" THEN default_fields ELSE th[t].own

\* s, ok := fields[Sd_message].(string)
HasMessage(fields) ==
    Sd_message \in DOMAIN fields /\ fields[Sd_message].kind = "string"

\* p, ok := fields[sd_priority].(Priority); the zero Priority otherwise
PriorityOf(fields) ==
    IF sd_priority \in DOMAIN fields /\ fields[sd_priority].kind = "Priority"
    THEN fields[sd_priority].v
    ELSE <<>>

\* j.lock.Lock()
SendLock(t) ==
    /\ th[t].pc = "send"
    /\ lock = 0
    /\ lock' = t
    /\ th' = [th EXCEPT ![t].pc = "send_disable", ![t].given = Fields(t)]
    /\ UNCHANGED <<package_vars, package_lock, journal_vars>>

\* package_lock.Lock(); disable_journal := default_disable_journal; package_lock.Unlock()
SendDisable(t) ==
    /\ th[t].pc = "send_disable"
    /\ package_lock = 0
    /\ th' = [th EXCEPT ![t].pc = "send_writer",
                        ![t].disable_journal = default_disable_journal]
    /\ UNCHANGED <<package_vars, package_lock, journal_vars, lock>>

\* w := j.writer; if w == nil { package_lock.Lock(); w = default_writer; package_lock.Unlock() }
SendWriter(t) ==
    /\ th[t].pc = "send_writer"
    /\ writer # NilWriter \/ package_lock = 0
    /\ LET w == IF writer # NilWriter THEN writer ELSE default_writer
       IN th' = [th EXCEPT ![t].w = w,
                           ![t].pc = IF HasMessage(Fields(t)) /\ w # NilWriter
                                     THEN IF default_use_color
                                          THEN "send_color"
                                          ELSE "send_mirror"
                                     ELSE "send_journal"]
    /\ UNCHANGED <<package_vars, package_lock, journal_vars, lock>>

\* if default_use_color { package_lock.Lock()
SendColor(t) ==
    /\ th[t].pc = "send_color"
    /\ package_lock = 0
    /\ package_lock' = t
    /\ th' = [th EXCEPT ![t].pc = "send_mirror"]
    /\ UNCHANGED <<package_vars, journal_vars, lock>>

\* the write to w with package_lock.Unlock() left out
SendMirror_keeps_package_lock(t) ==
    /\ th[t].pc = "send_mirror"
    /\ LET s == Fields(t)[Sd_message].v
           cleaned_s == IF HasBit(remove, Remove_writer) THEN remove_re2(s) ELSE <<>>
           text == IF HasBit(remove, Remove_writer) THEN cleaned_s ELSE s
       IN th' = [th EXCEPT ![t].pc = "send_journal",
                           ![t].cleaned_s = cleaned_s,
                           ![t].mirror = MirrorLine(PriorityOf(Fields(t)),
                                                    add_go_code_fields,
                                                    file_line(stack_skip, Site(t)),
                                                    text)]
    /\ UNCHANGED package_lock
    /\ UNCHANGED <<package_vars, journal_vars, lock>>

\* fmt.Fprintf(w, ...) of the message, cleaned when j.remove has
\* Remove_writer; package_lock.Unlock() when it was taken
SendMirror(t) ==
    /\ th[t].pc = "send_mirror"
    /\ LET s == Fields(t)[Sd_message].v
           cleaned_s == IF HasBit(remove, Remove_writer) THEN remove_re2(s) ELSE <<>>
           text == IF HasBit(remove, Remove_writer) THEN cleaned_s ELSE s
       IN th' = [th EXCEPT ![t].pc = "send_journal",
                           ![t].cleaned_s = cleaned_s,
                           ![t].mirror = MirrorLine(PriorityOf(Fields(t)),
                                                    add_go_code_fields,
                                                    file_line(stack_skip, Site(t)),
                                                    text)]
    /\ package_lock' = IF package_lock = t THEN 0 ELSE package_lock
    /\ UNCHANGED <<package_vars, journal_vars, lock>>

\* the journal branch taking cleaned_s whatever its length
CleanedMessage_always_cleaned_s(s, cleaned_s) == cleaned_s

\* the MESSAGE Send puts into fields when j.remove has Remove_journal
CleanedMessage(s, cleaned_s) ==
    IF 0 = Len(cleaned_s) THEN remove_re2(s) ELSE cleaned_s

\* the outcomes of the rest of Send: the return when journal output is
\* disabled, else MESSAGE cleaned, the capacity check, the location fields,
\* the records and sd_journal_sendv
SendOutcomes(fields, disable_journal, cleaned_s, rm, add_go, loc) ==
    IF HasMessage(fields) /\ disable_journal
    THEN {[fields |-> fields, ret |-> Nil, sent |-> NoSend]}
    ELSE SendRecords(IF HasMessage(fields) /\ HasBit(rm, Remove_journal)
                     THEN MapSet(fields, Sd_message,
                                 Str(CleanedMessage(fields[Sd_message].v, cleaned_s)))
                     ELSE fields,
                     add_go, loc)

SendJournal(t) ==
    /\ th[t].pc = "send_journal"
    /\ \E o \in SendOutcomes(Fields(t), th[t].disable_journal, th[t].cleaned_s,
                             remove, add_go_code_fields,
                             file_line(stack_skip, Site(t))) :
          /\ th' = [th EXCEPT ![t].pc = "idle",
                              ![t].tagging = add_go_code_fields,
                              ![t].rm = remove,
                              ![t].own = IF th[t].ref = "own" THEN o.fields ELSE @,
                              ![t].ret = o.ret,
                              ![t].sent = o.sent]
          /\ default_fields' = IF th[t].ref = "default_fields"
                               THEN o.fields
                               ELSE default_fields
    /\ lock' = 0
    /\ UNCHANGED <<package_vars, package_lock, add_go_code_fields, writer,
                   stack_skip, remove, priority>>

(***************************************************************************)
(* Configuration calls.                                                    *)
(***************************************************************************)
Configured == [Idle EXCEPT !.op = "config"]

\* Journal.Set_add_go_code_fields(use)
Set_add_go_code_fields(t) ==
    /\ MayCall(t)
    /\ lock = 0
    /\ \E use \in BOOLEAN : add_go_code_fields' = use
    /\ th' = [th EXCEPT ![t] = Configured]
    /\ UNCHANGED <<package_vars, package_lock, default_fields, lock, writer,
                   stack_skip, remove, priority>>

\* j.Option(Set_remove_ansi(rm))
Set_remove_ansi(t) ==
    /\ MayCall(t)
    /\ lock = 0
    /\ \E rm \in {0, Remove_journal, Remove_writer, Remove_journal + Remove_writer} :
          remove' = rm
    /\ th' = [th EXCEPT ![t] = Configured]
    /\ UNCHANGED <<package_vars, package_lock, default_fields, lock,
                   add_go_code_fields, writer, stack_skip, priority>>

\* the values Set_field is called with; NoValue is a nil value
NoValue == [kind |-> "nil", v |-> <<>>]
SetFieldArgs ==
    { <<NameX, Str(<<100>>)>>, <<NameX, NoValue>>, <<<<95, 65>>, Str(<<100>>)>> }

\* j.Option(Set_field(name, value)): nothing for a name valid_field
\* rejects, delete for a nil value, else default_fields[name] = value
Set_field(t) ==
    /\ MayCall(t)
    /\ lock = 0
    /\ \E a \in SetFieldArgs :
          default_fields' = IF ~valid_field(a[1]) THEN default_fields
                            ELSE IF a[2] = NoValue THEN MapDelete(default_fields, a[1])
                            ELSE MapSet(default_fields, a[1], a[2])
    /\ th' = [th EXCEPT ![t] = Configured]
    /\ UNCHANGED <<package_vars, package_lock, lock, add_go_code_fields, writer,
                   stack_skip, remove, priority>>

\* j.Option(Set_writer(w))
Set_writer(t) ==
    /\ MayCall(t)
    /\ lock = 0
    /\ \E w \in {NilWriter, W} : writer' = w
    /\ th' = [th EXCEPT ![t] = Configured]
    /\ UNCHANGED <<package_vars, package_lock, default_fields, lock,
                   add_go_code_fields, stack_skip, remove, priority>>

\* j.Option(Set_default_disable_journal(disable)): j.lock, then package_lock
Set_default_disable_journal(t) ==
    /\ MayCall(t)
    /\ lock = 0
    /\ package_lock = 0
    /\ \E disable \in BOOLEAN : default_disable_journal' = disable
    /\ th' = [th EXCEPT ![t] = Configured]
    /\ UNCHANGED <<id128, default_writer, default_remove_ansi_escape, package_lock,
                   journal_vars, lock>>

\* Set_message_id(uuid)
Set_message_id(t) ==
    /\ MayCall(t)
    /\ package_lock = 0
    /\ \E uuid \in {<<>>, <<117>>} :
          id128' = IF uuid = <<>> THEN NilId ELSE IdOf(uuid)
    /\ th' = [th EXCEPT ![t] = Configured]
    /\ UNCHANGED <<default_writer, default_remove_ansi_escape,
                   default_disable_journal, package_lock, journal_vars, lock>>


(***************************************************************************)
(* j = New_journal_m(default_fields): the goroutine replaces its Journal   *)
(* by a new one, made from the package defaults of the moment; the new     *)
(* default fields are copy(default_fields, message_priority, id128).       *)
(***************************************************************************)
New_journal_m(t, maps) ==
    /\ \A u \in Threads : th[u].pc = "idle"
    /\ lock = 0
    /\ package_lock = 0
    /\ \E m \in maps : default_fields' = copy(<<m, message_priority, id128.m>>)
    /\ add_go_code_fields' = TRUE
    /\ priority' = Log_info
    /\ remove' = default_remove_ansi_escape
    /\ writer' = default_writer
    /\ stack_skip' = 4
    /\ th' = [th EXCEPT ![t] = Configured]
    /\ UNCHANGED <<package_vars, package_lock, lock>>

\* j.Set_default_fields(fields)
Set_default_fields(t, maps) ==
    /\ MayCall(t)
    /\ lock = 0
    /\ \E m \in maps : default_fields' = copy(<<m, message_priority, id128.m>>)
    /\ th' = [th EXCEPT ![t] = Configured]
    /\ UNCHANGED <<package_vars, package_lock, lock, add_go_code_fields, writer,
                   stack_skip, remove, priority>>

(***************************************************************************)
(* The calls a goroutine starts, with the inputs they are drawn from, and  *)
(* the steps of a call under way.                                          *)
(***************************************************************************)
Call(t, texts, severities, maps, arrays, sendmaps) ==
    \/ Emit(t, texts, severities)
    \/ Emit_m(t, texts, severities, maps)
    \/ Emit_a(t, texts, severities, arrays)
    \/ CallSend(t, sendmaps)
    \/ Set_add_go_code_fields(t)
    \/ Set_remove_ansi(t)
    \/ Set_field(t)
    \/ Set_writer(t)
    \/ Set_default_disable_journal(t)
    \/ Set_message_id(t)

Step(t) ==
    \/ Copy(t)
    \/ SendLock(t)
    \/ SendDisable(t)
    \/ SendWriter(t)
    \/ SendColor(t)
    \/ SendMirror(t)
    \/ SendJournal(t)

(***************************************************************************)
(* Spec: the goroutines of Threads call concurrently on the shared         *)
(* Journal, MaxCalls calls in all, with few inputs.                        *)
(***************************************************************************)
FewTexts == {<<97>>, <<98>>}
FewMaps == {MapSet(EmptyMap, NameX, Str(<<111>>))}
FewArrays == {<<NameX \o sd_field_name_sep_s \o <<111>>>>}
FewSendMaps == {MapSet(EmptyMap, Sd_message, Str(<<97>>))}

Next ==
    \E t \in Threads :
        \/ /\ calls < MaxCalls
           /\ calls' = calls + 1
           /\ Call(t, FewTexts, EmitSeverities, FewMaps, FewArrays, FewSendMaps)
           /\ UNCHANGED apart_vars
        \/ /\ Step(t)
           /\ UNCHANGED <<calls, apart_vars>>

Spec == Init /\ [][Next]_vars

(***************************************************************************)
(* SendSpec: one goroutine configures the Journal and the package and      *)
(* calls Send with maps of its own, any number of times.  Send with the    *)
(* caller's map reads the configuration and never j.default_fields.        *)
(***************************************************************************)
SendNext ==
    /\ \/ CallSend(1, SendMaps)
       \/ Set_add_go_code_fields(1)
       \/ Set_remove_ansi(1)
       \/ Set_field(1)
       \/ Set_writer(1)
       \/ Set_default_disable_journal(1)
       \/ Set_message_id(1)
       \/ Step(1)
    /\ UNCHANGED <<calls, apart_vars>>

SendSpec == Init /\ [][SendNext]_vars

(***************************************************************************)
(* EmitSpec: one goroutine configures the Journal and the package and      *)
(* calls the severity methods, with and without overlay, any number of     *)
(* times.                                                                  *)
(***************************************************************************)
EmitNext ==
    /\ \/ Emit(1, Texts, EmitSeverities)
       \/ Emit_m(1, Texts, EmitSeverities, OverlayMaps)
       \/ Emit_a(1, Texts, EmitSeverities, OverlayArrays)
       \/ Set_add_go_code_fields(1)
       \/ Set_remove_ansi(1)
       \/ Set_field(1)
       \/ Set_writer(1)
       \/ Set_default_disable_journal(1)
       \/ Set_message_id(1)
       \/ Step(1)
    /\ UNCHANGED <<calls, apart_vars>>

EmitSpec == Init /\ [][EmitNext]_vars

(***************************************************************************)
(* What a finished call shows: its return value and the iovec array given  *)
(* to sd_journal_sendv, read back the way the journal reads a record (the  *)
(* name before the first '=', the value after it).                         *)
(***************************************************************************)
EmitOps == {"plain", "m", "a"}
OverlayOps == {"m", "a"}
SendOps == EmitOps \cup {"send"}

\* goroutine t's call has returned from Send
Finished(t) == th[t].pc = "idle" /\ th[t].op \in SendOps

\* Send of goroutine t called sd_journal_sendv
Transported(t) == Finished(t) /\ th[t].sent # NoSend

RecordsOf(sent) == {sent.iov[k] : k \in DOMAIN sent.iov}

Decoded(r) == [name |-> SplitName(IovBytes(r)), value |-> SplitValue(IovBytes(r))]

\* the values of the records of goroutine t's call that read back as `name`
SentValues(t, name) ==
    {Decoded(r).value : r \in {x \in RecordsOf(th[t].sent) : Decoded(x).name = name}}

\* the naming grammar: first character not '_', every remaining character
\* an uppercase letter, a digit or '_'
MatchesGrammar(k) ==
    /\ Len(k) >= 1
    /\ k[1] # 95
    /\ \A i \in 2..Len(k) : \/ k[i] \in 65..90
                            \/ k[i] \in 48..57
                            \/ k[i] = 95

ReservedNames == {Sd_message, sd_priority, sd_message_id, sd_go_func, sd_go_file}

(***************************************************************************)
(* C1.  Two goroutines emitting on the same Journal: the records a call    *)
(* hands to the transport carry that call's own MESSAGE text (as given,    *)
(* or with its escape sequences removed) and that call's own PRIORITY,     *)
(* under every interleaving.                                               *)
(***************************************************************************)
C1_OwnMessageAndPriority ==
    \A t \in Threads :
        (Transported(t) /\ th[t].op \in EmitOps) =>
            /\ SentValues(t, Sd_message) \subseteq
                   {th[t].message, remove_re2(th[t].message)}
            /\ SentValues(t, Sd_message) # {}
            /\ SentValues(t, sd_priority) = {th[t].Priority}

(***************************************************************************)
(* C2 as stated.  A map with a name outside the naming grammar makes Send  *)
(* return an error without calling the transport; a map whose names all    *)
(* match never gets the name-validation error.                             *)
(***************************************************************************)
C2_AsStated ==
    \A t \in Threads :
        Finished(t) =>
            /\ (\E k \in DOMAIN th[t].given : ~MatchesGrammar(k)) =>
                   (th[t].ret # Nil /\ th[t].sent = NoSend)
            /\ (\A k \in DOMAIN th[t].given : MatchesGrammar(k)) =>
                   th[t].ret.kind # "field"

\* Send returned at `if disable_journal { return nil }`
ReturnedDisabled(t) == th[t].disable_journal /\ HasMessage(th[t].given)

(***************************************************************************)
(* C2, amended.  A map with a name outside the naming grammar never        *)
(* reaches the transport, and Send returns an error for it unless journal  *)
(* output is disabled and MESSAGE is text, in which case Send returns nil  *)
(* before it looks at the names; a map whose names all match never gets    *)
(* the name-validation error.                                              *)
(***************************************************************************)
C2_InvalidNameNeverSent ==
    \A t \in Threads :
        Finished(t) =>
            /\ (\E k \in DOMAIN th[t].given : ~MatchesGrammar(k)) =>
                   /\ th[t].sent = NoSend
                   /\ (th[t].ret = Nil) <=> ReturnedDisabled(t)
            /\ (\A k \in DOMAIN th[t].given : MatchesGrammar(k)) =>
                   th[t].ret.kind # "field"

\* a Send that returned the name-validation error
C2_Witness ==
    \E t \in Threads :
        /\ Finished(t)
        /\ th[t].ret.kind = "field"
        /\ ~MatchesGrammar(th[t].ret.key)
        /\ th[t].sent = NoSend

(***************************************************************************)
(* C3.  No call hands more than max_fields records to the transport,       *)
(* with caller-location tagging on or off.                                 *)
(***************************************************************************)
C3_NeverMoreThanMax ==
    \A t \in Threads : Transported(t) => th[t].sent.n <= max_fields

(***************************************************************************)
(* C4 as stated.  A map of exactly max_fields entries passes the capacity  *)
(* check and is encoded; a map of max_fields + 1 entries gets the error    *)
(* that reports the maximum and the count, and the transport is not        *)
(* called.                                                                 *)
(***************************************************************************)
Encodable(fields) ==
    \A k \in DOMAIN fields : MatchesGrammar(k) /\ Supported(fields[k])

C4_AsStated ==
    \A t \in Threads :
        Finished(t) =>
            /\ Cardinality(DOMAIN th[t].given) = max_fields =>
                   /\ th[t].ret.kind # "capacity"
                   /\ Encodable(th[t].given) => Transported(t)
            /\ Cardinality(DOMAIN th[t].given) = max_fields + 1 =>
                   /\ th[t].ret = ErrCapacity(max_fields, max_fields + 1)
                   /\ th[t].sent = NoSend

(***************************************************************************)
(* C4, amended.  Unless journal output is disabled and MESSAGE is text     *)
(* (Send then returns nil before the capacity check): a map of exactly     *)
(* max_fields entries passes the capacity check and, when its names and    *)
(* values are encodable, is handed to the transport; a map of              *)
(* max_fields + 1 entries gets the error that reports the maximum and the  *)
(* count.  The transport is never called for max_fields + 1 entries.       *)
(***************************************************************************)
C4_CapacityBoundary ==
    \A t \in Threads :
        Finished(t) =>
            /\ (Cardinality(DOMAIN th[t].given) = max_fields /\ ~ReturnedDisabled(t)) =>
                   /\ th[t].ret.kind # "capacity"
                   /\ Encodable(th[t].given) => Transported(t)
            /\ Cardinality(DOMAIN th[t].given) = max_fields + 1 =>
                   /\ th[t].sent = NoSend
                   /\ IF ReturnedDisabled(t)
                      THEN th[t].ret = Nil
                      ELSE th[t].ret = ErrCapacity(max_fields, max_fields + 1)

\* a Send of max_fields + 1 entries that returned the capacity error
C4_Witness ==
    \E t \in Threads :
        /\ Finished(t)
        /\ Cardinality(DOMAIN th[t].given) = max_fields + 1
        /\ th[t].ret = ErrCapacity(max_fields, max_fields + 1)

(***************************************************************************)
(* C5.  An overlay emission hands to the transport its own message text    *)
(* (with the escape sequences removed when Remove_journal is set) as       *)
(* MESSAGE and its own severity as PRIORITY, for every message text, the   *)
(* empty one included, whatever MESSAGE or PRIORITY the overlay holds.     *)
(***************************************************************************)
C5_OverlayKeepsOwnMessage ==
    \A t \in Threads :
        (Transported(t) /\ th[t].op \in OverlayOps) =>
            /\ SentValues(t, Sd_message) =
                   {IF HasBit(th[t].rm, Remove_journal)
                    THEN remove_re2(th[t].message)
                    ELSE th[t].message}
            /\ SentValues(t, sd_priority) = {th[t].Priority}

\* a field value Journal.copy takes over: text or bytes, not empty
NonEmptyValue(v) == v.kind \in {"string", "bytes"} /\ v.v # <<>>
EmptyValue(v) == v.kind \in {"string", "bytes"} /\ v.v = <<>>

(***************************************************************************)
(* C6.  In an overlay emission, a non-reserved name that the overlay and   *)
(* the instance's default fields both define with non-empty values is      *)
(* handed to the transport with the overlay's value.                       *)
(***************************************************************************)
C6_OverlayValueWins ==
    \A t \in Threads :
        (Transported(t) /\ th[t].op \in OverlayOps) =>
            \A k \in ((DOMAIN th[t].overlay) \cap (DOMAIN default_fields)) \ ReservedNames :
                (NonEmptyValue(th[t].overlay[k]) /\ NonEmptyValue(default_fields[k])) =>
                    SentValues(t, k) = {th[t].overlay[k].v}

(***************************************************************************)
(* C7.  A []byte value reaches the transport as the name bytes, one 0x3D   *)
(* byte and the value bytes unchanged, with length                         *)
(* len(name) + 1 + len(value), and splitting the record at its first 0x3D  *)
(* byte gives back the value bytes.                                        *)
(***************************************************************************)
C7_ByteRecordRoundTrip ==
    \A t \in Threads :
        Transported(t) =>
            \A k \in DOMAIN th[t].given :
                th[t].given[k].kind = "bytes" =>
                    LET r == th[t].sent.iov[k]
                        v == th[t].given[k].v
                    IN /\ r.iov_base = k \o <<61>> \o v
                       /\ r.iov_len = Len(k) + 1 + Len(v)
                       /\ SplitValue(IovBytes(r)) = v

\* goroutine t's overlay call has merged its overlay with the defaults
Merged(t) == th[t].op \in OverlayOps /\ th[t].pc # "copy"

(***************************************************************************)
(* C8 as stated.  An overlay field with an empty string or empty []byte    *)
(* value is absent from the merged field set, and no record is produced    *)
(* under its name.                                                         *)
(***************************************************************************)
C8_AsStated ==
    \A t \in Threads :
        Merged(t) =>
            \A k \in DOMAIN th[t].overlay :
                EmptyValue(th[t].overlay[k]) =>
                    /\ k \notin DOMAIN th[t].own
                    /\ Transported(t) => SentValues(t, k) = {}

(***************************************************************************)
(* C8, amended.  An overlay field with an empty string or empty []byte     *)
(* value, under a name other than MESSAGE, PRIORITY, MESSAGE_ID, GO_FUNC   *)
(* and GO_FILE, puts nothing into the merged field set: the name is in     *)
(* the merged set only when the instance's default fields hold a           *)
(* non-empty value under it, and then with the default's value; no record  *)
(* NAME= with an empty value is produced for it.                           *)
(***************************************************************************)
C8_EmptyOverlayValueAddsNothing ==
    \A t \in Threads :
        Merged(t) =>
            \A k \in (DOMAIN th[t].overlay) \ ReservedNames :
                EmptyValue(th[t].overlay[k]) =>
                    /\ k \in DOMAIN th[t].own =>
                           /\ k \in DOMAIN default_fields
                           /\ NonEmptyValue(default_fields[k])
                           /\ th[t].own[k] = default_fields[k]
                    /\ Transported(t) =>
                           /\ <<>> \notin SentValues(t, k)
                           /\ k \notin DOMAIN th[t].own => SentValues(t, k) = {}

\* an overlay call with an empty value was sent, without a record for it
C8_Witness ==
    \E t \in Threads :
        /\ Merged(t)
        /\ Transported(t)
        /\ \E k \in (DOMAIN th[t].overlay) \ ReservedNames :
              /\ EmptyValue(th[t].overlay[k])
              /\ SentValues(t, k) = {}

\* the map whose values the caller of goroutine t's call supplied
CallerFields(t) == IF th[t].op \in OverlayOps THEN th[t].overlay ELSE th[t].given

(***************************************************************************)
(* C9.  A field whose value is neither text, []byte nor Priority makes     *)
(* the call fail with the unsupported-value error and nothing reaches the  *)
(* transport, be the field in the map given to Send or in the overlay of   *)
(* an overlay emission.                                                    *)
(***************************************************************************)
C9_UnsupportedValueFails ==
    \A t \in Threads :
        (Finished(t) /\ \E k \in DOMAIN CallerFields(t) : ~Supported(CallerFields(t)[k])) =>
            /\ th[t].ret.kind = "unsupported"
            /\ th[t].sent = NoSend

(***************************************************************************)
(* C10.  An emission made while caller-location tagging is off hands no    *)
(* GO_FUNC and no GO_FILE record to the transport, whatever earlier        *)
(* emissions did while tagging was on.                                     *)
(***************************************************************************)
C10_NoLocationWhenTaggingOff ==
    \A t \in Threads :
        (Transported(t) /\ th[t].op \in EmitOps /\ ~th[t].tagging) =>
            /\ SentValues(t, sd_go_func) = {}
            /\ SentValues(t, sd_go_file) = {}

(***************************************************************************)
(* IdSpec: one goroutine sets and unsets the message id, makes new         *)
(* Journals and emits, with overlays that hold a MESSAGE_ID of their own   *)
(* or none.                                                                *)
(***************************************************************************)
IdTexts == {<<97>>}
IdMaps == {EmptyMap,
           MapSet(EmptyMap, sd_message_id, Str(<<111>>)),
           MapSet(EmptyMap, NameX, Str(<<111>>))}
IdArrays == {<<sd_message_id \o sd_field_name_sep_s \o <<111>>>>, <<NameY>>}

IdNext ==
    /\ \/ Emit(1, IdTexts, EmitSeverities)
       \/ Emit_m(1, IdTexts, EmitSeverities, IdMaps)
       \/ Emit_a(1, IdTexts, EmitSeverities, IdArrays)
       \/ Set_message_id(1)
       \/ New_journal_m(1, InitDefaults)
       \/ Set_add_go_code_fields(1)
       \/ Set_default_disable_journal(1)
       \/ Step(1)
    /\ UNCHANGED <<calls, apart_vars>>

IdSpec == Init /\ [][IdNext]_vars

\* the field set goroutine t's emission handed to Send
MergedSet(t) == th[t].given

(***************************************************************************)
(* C11 as stated.  The merged field set of an emission holds MESSAGE_ID    *)
(* with the configured identifier when one is configured, and no           *)
(* MESSAGE_ID at all when none is configured.                              *)
(***************************************************************************)
C11_AsStated ==
    \A t \in Threads :
        (Finished(t) /\ th[t].op \in EmitOps) =>
            IF id128.nil
            THEN sd_message_id \notin DOMAIN MergedSet(t)
            ELSE /\ sd_message_id \in DOMAIN MergedSet(t)
                 /\ MergedSet(t)[sd_message_id] = id128.m[sd_message_id]

\* the overlay of goroutine t's call holds a MESSAGE_ID that copy keeps
OverlayHasId(t) ==
    /\ th[t].op \in OverlayOps
    /\ sd_message_id \in DOMAIN th[t].overlay
    /\ NonEmptyValue(th[t].overlay[sd_message_id])

(***************************************************************************)
(* C11, amended.  When an identifier is configured, the merged field set   *)
(* of an emission holds MESSAGE_ID with that identifier (on Journals made  *)
(* before or after the Set_message_id call, and whatever MESSAGE_ID the    *)
(* overlay holds).  When none is configured, the merged set holds a        *)
(* MESSAGE_ID only if the overlay of the call supplies a non-empty one,    *)
(* and then with the overlay's value.  The records handed to the           *)
(* transport carry the same MESSAGE_ID, or none.                           *)
(***************************************************************************)
C11_MessageIdFollowsConfiguration ==
    \A t \in Threads :
        (Finished(t) /\ th[t].op \in EmitOps) =>
            LET expected == IF ~id128.nil THEN {id128.m[sd_message_id]}
                            ELSE IF OverlayHasId(t)
                                 THEN {Str(th[t].overlay[sd_message_id].v)}
                                 ELSE {}
                merged == IF sd_message_id \in DOMAIN MergedSet(t)
                          THEN {MergedSet(t)[sd_message_id]}
                          ELSE {}
            IN /\ merged = expected
               /\ Transported(t) =>
                      SentValues(t, sd_message_id) = {v.v : v \in expected}

\* an overlay emission whose overlay holds a MESSAGE_ID of its own, sent
\* with the configured identifier
C11_Witness ==
    \E t \in Threads :
        /\ Transported(t)
        /\ OverlayHasId(t)
        /\ ~id128.nil
        /\ SentValues(t, sd_message_id) = {id128.m[sd_message_id].v}

(***************************************************************************)
(* The caller's []byte buffer.  caller.buf is its content; caller.handed   *)
(* is, for each default field the buffer was given as, the content at the  *)
(* time it was given; caller.aliased is the set of names under which       *)
(* j.default_fields holds the caller's slice itself, not a copy.           *)
(***************************************************************************)
NameZ == <<90>>
BufBytes == {97, 98}

\* map[string]interface{}{k: buf}
BufMap(k) == MapSet(EmptyMap, k, Bytes(caller.buf))

\* j = New_journal_m(map[string]interface{}{"X": buf}): copy appends the
\* bytes to a new slice
New_journal_m_buffer(t) ==
    /\ New_journal_m(t, {BufMap(NameX)})
    /\ caller' = [caller EXCEPT !.aliased = {},
                                !.handed = MapSet(EmptyMap, NameX, caller.buf)]

\* j.Set_default_fields(map[string]interface{}{"Y": buf})
Set_default_fields_buffer(t) ==
    /\ Set_default_fields(t, {BufMap(NameY)})
    /\ caller' = [caller EXCEPT !.aliased = {},
                                !.handed = MapSet(EmptyMap, NameY, caller.buf)]

\* j.Option(Set_field("X", buf)): o.default_fields[name] = value stores the
\* caller's slice
Set_field_buffer(t) ==
    /\ MayCall(t)
    /\ lock = 0
    /\ default_fields' = MapSet(default_fields, NameX, Bytes(caller.buf))
    /\ caller' = [caller EXCEPT !.aliased = @ \cup {NameX},
                                !.handed = MapSet(@, NameX, caller.buf)]
    /\ th' = [th EXCEPT ![t] = Configured]
    /\ UNCHANGED <<package_vars, package_lock, lock, add_go_code_fields, writer,
                   stack_skip, remove, priority>>

\* buf[0] = b, between two calls: every slice sharing the buffer's storage
\* reads the new byte
MutateBuffer(t) ==
    /\ MayCall(t)
    /\ lock = 0
    /\ \E b \in BufBytes \ {caller.buf[1]} :
          /\ caller' = [caller EXCEPT !.buf = <<b>>]
          /\ default_fields' = [k \in DOMAIN default_fields |->
                                   IF k \in caller.aliased
                                   THEN Bytes(<<b>>)
                                   ELSE default_fields[k]]
    /\ th' = [th EXCEPT ![t] = Configured]
    /\ UNCHANGED <<package_vars, package_lock, lock, add_go_code_fields, writer,
                   stack_skip, remove, priority>>

(***************************************************************************)
(* BufSpec: one goroutine gives its buffer to the Journal as a default     *)
(* field or in an overlay, writes to the buffer between calls, and emits.  *)
(***************************************************************************)
BufNext ==
    /\ \/ New_journal_m_buffer(1)
       \/ Set_default_fields_buffer(1)
       \/ Set_field_buffer(1)
       \/ MutateBuffer(1)
       \/ /\ \/ Emit(1, Texts, EmitSeverities)
             \/ Emit_m(1, IdTexts, EmitSeverities, {BufMap(NameZ)})
             \/ Set_add_go_code_fields(1)
             \/ Set_message_id(1)
             \/ Step(1)
          /\ UNCHANGED caller
    /\ UNCHANGED <<calls, stderr_vars, ansi_vars, option_vars>>

BufSpec == Init /\ [][BufNext]_vars

(***************************************************************************)
(* C12.  Once the buffer was given as a default field or in an overlay,    *)
(* writing to it does not change what a later emission encodes: the        *)
(* record of a default field carries the bytes the buffer had when it was  *)
(* given, the record of an overlay field the bytes it had at the call.     *)
(***************************************************************************)
C12_LibraryHoldsOwnCopy ==
    \A t \in Threads :
        (Transported(t) /\ th[t].op \in EmitOps) =>
            /\ \A k \in DOMAIN caller.handed :
                   SentValues(t, k) = {caller.handed[k]}
            /\ th[t].op \in OverlayOps =>
                   \A k \in (DOMAIN th[t].overlay) \ (DOMAIN caller.handed) :
                       th[t].overlay[k].kind = "bytes" =>
                           SentValues(t, k) = {th[t].overlay[k].v}

(***************************************************************************)
(* C13.  While journal output is disabled no call invokes the transport,   *)
(* whatever its field map holds, a map given to Send without MESSAGE or    *)
(* with a MESSAGE that is not text included.                               *)
(***************************************************************************)
C13_DisabledNeverTransports ==
    \A t \in Threads :
        (Finished(t) /\ th[t].disable_journal /\ default_disable_journal) =>
            th[t].sent = NoSend

(***************************************************************************)
(* The Send with a stderr policy (src/unnamed/part_000, and Send of        *)
(* package c, which takes the two policies as arguments): capacity check,  *)
(* location fields, the encoding loop, then                                *)
(*   switch {                                                              *)
(*   case j.send_stderr != Sd_send_stderr_allow_override:                  *)
(*       if j.send_stderr == Sd_send_stderr_true { echo }                  *)
(*   case default_send_stderr == Sd_send_stderr_true: echo }               *)
(* and sd_journal_sendv.  A return from the loop comes before the switch.  *)
(***************************************************************************)
Send_stderr_values ==
    {Sd_send_stderr_allow_override, Sd_send_stderr_true, Sd_send_stderr_false}

\* the switch with the default deciding whenever the instance is not true
EchoesToStderr_default_first(instance, default) ==
    IF instance = Sd_send_stderr_true THEN TRUE
    ELSE default = Sd_send_stderr_true

EchoesToStderr(instance, default) ==
    IF instance # Sd_send_stderr_allow_override
    THEN instance = Sd_send_stderr_true
    ELSE default = Sd_send_stderr_true

\* strconv-style decimal digits of a natural number
RECURSIVE Decimal(_)
Decimal(n) == IF n < 10 THEN <<48 + n>> ELSE Decimal(n \div 10) \o <<48 + (n % 10)>>

RECURSIVE SpacedDecimals(_)
SpacedDecimals(b) ==
    IF b = <<>> THEN <<>>
    ELSE IF Len(b) = 1 THEN Decimal(b[1])
         ELSE Decimal(b[1]) \o <<32>> \o SpacedDecimals(Tail(b))

\* fmt.Fprintf(os.Stderr, "%v", fields[Sd_message]): a string as it is, a
\* []byte as [97 98], a missing entry as <nil>
StderrText(fields) ==
    IF Sd_message \notin DOMAIN fields THEN <<60, 110, 105, 108, 62>>
    ELSE IF fields[Sd_message].kind = "bytes"
         THEN <<91>> \o SpacedDecimals(fields[Sd_message].v) \o <<93>>
         ELSE fields[Sd_message].v

Send_stderr_outcomes(add_go, instance, default, fields, loc) ==
    {[fields |-> o.fields, ret |-> o.ret, sent |-> o.sent,
      stderr |-> IF o.sent # NoSend /\ EchoesToStderr(instance, default)
                 THEN [written |-> TRUE, text |-> StderrText(o.fields)]
                 ELSE NoEcho] :
        o \in SendRecords(fields, add_go, loc)}

\* j.Set_send_stderr(use)
Set_send_stderr(t) ==
    /\ MayCall(t)
    /\ lock = 0
    /\ \E use \in Send_stderr_values : send_stderr' = use
    /\ stderr_call' = NoStderrCall
    /\ UNCHANGED default_send_stderr

\* Set_default_send_stderr(use)
Set_default_send_stderr(t) ==
    /\ MayCall(t)
    /\ package_lock = 0
    /\ \E use \in Send_stderr_values : default_send_stderr' = use
    /\ stderr_call' = NoStderrCall
    /\ UNCHANGED send_stderr

\* j.Send(fields) of that version, j.lock held from the first line to the
\* return
Send_stderr(t, maps) ==
    /\ MayCall(t)
    /\ lock = 0
    /\ \E fields \in maps :
          \E o \in Send_stderr_outcomes(add_go_code_fields, send_stderr,
                                        default_send_stderr, fields,
                                        file_line(4, Site(t))) :
              stderr_call' = [made |-> TRUE, given |-> fields, ret |-> o.ret,
                              sent |-> o.sent, stderr |-> o.stderr]
    /\ UNCHANGED <<send_stderr, default_send_stderr>>

(***************************************************************************)
(* StderrSpec: one goroutine sets the two stderr policies and the          *)
(* location tagging and calls the Send with a stderr policy.               *)
(***************************************************************************)
StderrMaps == SendMaps \cup {MapSet(EmptyMap, Sd_message, Bytes(<<97, 98>>))}

StderrNext ==
    /\ \/ /\ \/ Set_send_stderr(1)
             \/ Set_default_send_stderr(1)
             \/ Send_stderr(1, StderrMaps)
          /\ UNCHANGED <<package_vars, package_lock, journal_vars, lock, th>>
       \/ /\ Set_add_go_code_fields(1)
          /\ stderr_call' = NoStderrCall
          /\ UNCHANGED <<send_stderr, default_send_stderr>>
    /\ UNCHANGED <<calls, caller_vars, ansi_vars, option_vars>>

StderrSpec == Init /\ [][StderrNext]_vars

\* the policy the two settings resolve to
ResolvedStderrPolicy ==
    CASE send_stderr = Sd_send_stderr_true -> TRUE
      [] send_stderr = Sd_send_stderr_false -> FALSE
      [] OTHER -> default_send_stderr = Sd_send_stderr_true

(***************************************************************************)
(* C14 as stated.  A call echoes the message to standard error exactly     *)
(* when the resolved policy is true: instance true echoes, instance false  *)
(* never echoes, instance allow-override echoes if and only if the         *)
(* process-wide default is true.                                           *)
(***************************************************************************)
C14_AsStated ==
    stderr_call.made => (stderr_call.stderr.written <=> ResolvedStderrPolicy)

(***************************************************************************)
(* C14, amended.  A call whose field map passed the capacity check and     *)
(* was encoded echoes the MESSAGE of its field map to standard error       *)
(* exactly when the resolved policy is true, with the resolution as        *)
(* stated; a call that returns a capacity, name or value error echoes      *)
(* nothing, whatever the policy.  A text MESSAGE is echoed as given.       *)
(***************************************************************************)
C14_EchoFollowsResolvedPolicy ==
    stderr_call.made =>
        /\ stderr_call.stderr.written <=>
               (ResolvedStderrPolicy /\ stderr_call.sent # NoSend)
        /\ (stderr_call.stderr.written /\ HasMessage(stderr_call.given)) =>
               stderr_call.stderr.text = stderr_call.given[Sd_message].v

\* allow-override on the instance, true as the default: the call echoed
C14_Witness ==
    /\ stderr_call.made
    /\ send_stderr = Sd_send_stderr_allow_override
    /\ default_send_stderr = Sd_send_stderr_true
    /\ stderr_call.stderr.written
    /\ stderr_call.stderr.text = <<97>>

\* a text with an escape sequence in it
HasEscape(s) == \E i \in 1..Len(s) : s[i] = ESC

\* the text MESSAGE a finished call entered Send with
MessageGiven(t) == th[t].given[Sd_message].v

\* the message as the sink is to receive it under the flag
AsReceived(s, flags, flag) == IF HasBit(flags, flag) THEN remove_re2(s) ELSE s

(***************************************************************************)
(* C15.  For each of the four values of the two removal flags, the writer  *)
(* receives the message with escape sequences removed if and only if       *)
(* Remove_writer is set, and the MESSAGE given to sd_journal_sendv has     *)
(* them removed if and only if Remove_journal is set; neither flag changes *)
(* what the other sink receives.                                           *)
(***************************************************************************)
C15_EachSinkFollowsItsOwnFlag ==
    \A t \in Threads :
        (Finished(t) /\ HasMessage(th[t].given)) =>
            /\ th[t].w # NilWriter =>
                   th[t].mirror =
                       MirrorLine(PriorityOf(th[t].given), th[t].tagging,
                                  file_line(stack_skip, Site(t)),
                                  AsReceived(MessageGiven(t), th[t].rm, Remove_writer))
            /\ Transported(t) =>
                   SentValues(t, Sd_message) =
                       {AsReceived(MessageGiven(t), th[t].rm, Remove_journal)}

\* a message with an escape sequence, stripped for the journal and written
\* to the writer as it was
C15_Witness ==
    \E t \in Threads :
        /\ Finished(t) /\ HasMessage(th[t].given)
        /\ HasEscape(MessageGiven(t))
        /\ th[t].rm = Remove_journal
        /\ th[t].w # NilWriter
        /\ Transported(t)
        /\ ~HasEscape(CHOOSE v \in SentValues(t, Sd_message) : TRUE)
        /\ th[t].mirror = MessageGiven(t)

(***************************************************************************)
(* C16.  A call that returns the capacity error has skipped the emission   *)
(* entirely: nothing was given to sd_journal_sendv and nothing was written *)
(* to the writer for that call.                                            *)
(***************************************************************************)
C16_CapacityErrorSkipsEverything ==
    \A t \in Threads :
        (Finished(t) /\ th[t].ret.kind = "capacity") =>
            /\ th[t].sent = NoSend
            /\ th[t].mirror = <<>>

(***************************************************************************)
(* SeveritySpec: one goroutine calls Emerg .. Debug and Emergf .. Debugf   *)
(* on a Journal, switching the location tagging, the removal flags and     *)
(* the writer between calls.  No message identifier is configured and no   *)
(* default field is set after New.                                         *)
(***************************************************************************)
SeverityNext ==
    /\ \/ Emit(1, Texts, Severities)
       \/ Set_add_go_code_fields(1)
       \/ Set_remove_ansi(1)
       \/ Set_writer(1)
       \/ Step(1)
    /\ UNCHANGED <<calls, apart_vars>>

SeveritySpec == Init /\ [][SeverityNext]_vars

\* the names of the records a call handed to sd_journal_sendv
SentNames(t) == {Decoded(r).name : r \in RecordsOf(th[t].sent)}

\* the decimal strings of the syslog levels LOG_EMERG .. LOG_DEBUG
SyslogLevels == {<<48>>, <<49>>, <<50>>, <<51>>, <<52>>, <<53>>, <<54>>, <<55>>}

\* the Journal was made with no default field
NoDefaultFields == NameX \notin DOMAIN default_fields

(***************************************************************************)
(* C17.  On a Journal with no default fields and no message identifier,    *)
(* each of Emerg .. Debug called without overlay hands over exactly        *)
(* MESSAGE (the formatted message) and PRIORITY (the decimal string of     *)
(* its syslog level), plus GO_FUNC and GO_FILE when the location tagging   *)
(* is on: one record per field, and no capacity, name or value error.      *)
(***************************************************************************)
C17_SeverityFieldSet ==
    \A t \in Threads :
        (Finished(t) /\ th[t].op = "plain" /\ NoDefaultFields /\ id128.nil) =>
            /\ th[t].ret.kind \in {"nil", "sendv"}
            /\ Transported(t)
            /\ SentNames(t) = {Sd_message, sd_priority} \cup
                              (IF th[t].tagging THEN {sd_go_func, sd_go_file} ELSE {})
            /\ th[t].sent.n = Cardinality(SentNames(t))
            /\ SentValues(t, Sd_message) =
                   {AsReceived(th[t].message, th[t].rm, Remove_journal)}
            /\ SentValues(t, sd_priority) = {th[t].Priority}
            /\ th[t].Priority \in SyslogLevels

\* no call is in progress
Quiescent == \A t \in Threads : th[t].pc = "idle"

\* the writer Send writes to in the present state
WriterNow == IF writer # NilWriter THEN writer ELSE default_writer

\* the return value and the records of a Send of fields by goroutine t in
\* the present state
SendNow(t, fields) ==
    LET cleaned_s == IF HasMessage(fields) /\ WriterNow # NilWriter
                        /\ HasBit(remove, Remove_writer)
                     THEN remove_re2(fields[Sd_message].v)
                     ELSE <<>>
    IN {[ret |-> o.ret, sent |-> o.sent] :
           o \in SendOutcomes(fields, default_disable_journal, cleaned_s, remove,
                              add_go_code_fields, file_line(stack_skip, Site(t)))}

\* Info(a...) or Infof(f, a...) in the present state
PlainNow(t, message, p) ==
    SendNow(t, load_defaults(default_fields, message, p, id128))

\* Info_m(fields, a...) or Info_m_f(fields, f, a...) in the present state
OverlayNow(t, fields, message, p) ==
    SendNow(t, copy(<<fields, load_defaults(default_fields, message, p, id128)>>))

(***************************************************************************)
(* C18.  For every state of the Journal and every message, a call with a   *)
(* nil or empty overlay returns the same result and hands over the same    *)
(* records as the plain call: Info_m(nil, a...) as Info(a...) and          *)
(* Info_m_f(nil, f, a...) as Infof(f, a...).                               *)
(***************************************************************************)
C18_NilOverlayAsPlain ==
    Quiescent =>
        \A t \in Threads, format \in {"ln", "f"}, text \in Texts, p \in EmitSeverities :
            OverlayNow(t, EmptyMap, Formatted(format, text), p) =
                PlainNow(t, Formatted(format, text), p)

(***************************************************************************)
(* Package ansi (src/unnamed/part_001).  A style is a byte string          *)
(* "fg+attrs:bg+attrs"; colorCode compiles it to an escape sequence.       *)
(***************************************************************************)
normalIntensityFG == 30
highIntensityFG == 90
normalIntensityBG == 40
highIntensityBG == 100

Colon == 58
Plus == 43
Semicolon == 59
Minus == 45

\* start = "\033["
start == <<ESC, 91>>
\* bold = "1;", blink = "5;", underline = "4;", inverse = "7;",
\* strikethrough = "9;"
bold == <<49, Semicolon>>
blink == <<53, Semicolon>>
underline == <<52, Semicolon>>
inverse == <<55, Semicolon>>
strikethrough == <<57, Semicolon>>

\* strings.Contains(s, c) for a one-byte c
Contains(s, c) == \E i \in 1..Len(s) : s[i] = c

\* strings.Split(s, sep) for a one-byte sep
RECURSIVE Split(_, _)
Split(s, sep) ==
    IF Contains(s, sep)
    THEN LET i == CHOOSE k \in 1..Len(s) :
                      s[k] = sep /\ \A m \in 1..(k - 1) : s[m] # sep
         IN <<SubSeq(s, 1, i - 1)>> \o Split(SubSeq(s, i + 1, Len(s)), sep)
    ELSE <<s>>

\* the value of a string of decimal digits
RECURSIVE DigitsValue(_)
DigitsValue(d) ==
    IF d = <<>> THEN 0
    ELSE 10 * DigitsValue(SubSeq(d, 1, Len(d) - 1)) + (d[Len(d)] - 48)

\* strconv.Atoi(s): an optional sign and at least one digit, else an error
Atoi(s) ==
    LET signed == Len(s) > 0 /\ s[1] \in {Plus, Minus}
        digits == IF signed THEN Tail(s) ELSE s
    IN IF digits # <<>> /\ \A i \in 1..Len(digits) : IsDigit(digits[i])
       THEN [err |-> FALSE,
             n |-> IF signed /\ s[1] = Minus
                   THEN 0 - DigitsValue(digits)
                   ELSE DigitsValue(digits)]
       ELSE [err |-> TRUE, n |-> 0]

\* fmt's %d
FormatInt(n) == IF n < 0 THEN <<Minus>> \o Decimal(0 - n) ELSE Decimal(n)

\* Colors[key]: the named colours, "0" .. "255", and 0 for a missing key
Colors(key) ==
    CASE key = <<98, 108, 97, 99, 107>> -> 0
      [] key = <<114, 101, 100>> -> 1
      [] key = <<103, 114, 101, 101, 110>> -> 2
      [] key = <<121, 101, 108, 108, 111, 119>> -> 3
      [] key = <<98, 108, 117, 101>> -> 4
      [] key = <<109, 97, 103, 101, 110, 116, 97>> -> 5
      [] key = <<99, 121, 97, 110>> -> 6
      [] key = <<119, 104, 105, 116, 101>> -> 7
      [] key = <<100, 101, 102, 97, 117, 108, 116>> -> 9
      [] OTHER -> IF \E n \in 0..255 : key = Decimal(n)
                  THEN DigitsValue(key)
                  ELSE 0

\* the attribute codes written in the order the flags stand in fgStyle
fgAttributes_in_input_order(fgStyle) ==
    LET code(c) == CASE c = 98 -> bold
                     [] c = 66 -> blink
                     [] c = 117 -> underline
                     [] c = 105 -> inverse
                     [] c = 115 -> strikethrough
                     [] OTHER -> <<>>
        F[i \in 0..Len(fgStyle)] ==
            IF i = 0 THEN <<>>
            ELSE IF \E k \in 1..(i - 1) : fgStyle[k] = fgStyle[i]
                 THEN F[i - 1]
                 ELSE F[i - 1] \o code(fgStyle[i])
    IN F[Len(fgStyle)]

\* if strings.Contains(fgStyle, "b") { buf.WriteString(bold) } ... "B", "u",
\* "i", "s"
fgAttributes(fgStyle) ==
    (IF Contains(fgStyle, 98) THEN bold ELSE <<>>)
    \o (IF Contains(fgStyle, 66) THEN blink ELSE <<>>)
    \o (IF Contains(fgStyle, 117) THEN underline ELSE <<>>)
    \o (IF Contains(fgStyle, 105) THEN inverse ELSE <<>>)
    \o (IF Contains(fgStyle, 115) THEN strikethrough ELSE <<>>)

\* base := normalIntensityFG; if strings.Contains(fgStyle, "h") { base = highIntensityFG }
fgBase(fgStyle) ==
    IF Contains(fgStyle, 104) THEN highIntensityFG ELSE normalIntensityFG

\* the background base with the "h" of bgStyle not looked at
bgBase_normal_only(bgStyle) == normalIntensityBG

\* base = normalIntensityBG; if strings.Contains(bgStyle, "h") { base = highIntensityBG }
bgBase(bgStyle) ==
    IF Contains(bgStyle, 104) THEN highIntensityBG ELSE normalIntensityBG

StyleReset == <<114, 101, 115, 101, 116>>
StyleOff == <<111, 102, 102>>

\* colorCode(style) with plain off and a style other than "", "reset", "off"
compile(style) ==
    LET foregroundBackground == Split(style, Colon)
        foreground == Split(foregroundBackground[1], Plus)
        fgKey == foreground[1]
        fg == Colors(fgKey)
        fgStyle == IF Len(foreground) > 1 THEN foreground[2] ELSE <<>>
        background == IF Len(foregroundBackground) > 1
                      THEN Split(foregroundBackground[2], Plus)
                      ELSE <<>>
        bg == IF Len(background) > 0 THEN background[1] ELSE <<>>
        bgStyle == IF Len(background) > 1 THEN background[2] ELSE <<>>
        buf1 == start \o fgAttributes(fgStyle)
        buf2 == buf1 \o (IF ~Atoi(fgKey).err
                         THEN <<51, 56, Semicolon, 53, Semicolon>>
                              \o FormatInt(Atoi(fgKey).n) \o <<Semicolon>>
                         ELSE FormatInt(fgBase(fgStyle) + fg) \o <<Semicolon>>)
        buf3 == IF Len(bg) > 0
                THEN buf2 \o (IF ~Atoi(bg).err
                              THEN <<52, 56, Semicolon, 53, Semicolon>>
                                   \o FormatInt(Atoi(bg).n) \o <<Semicolon>>
                              ELSE FormatInt(bgBase(bgStyle) + Colors(bg))
                                   \o <<Semicolon>>)
                ELSE buf2
    IN SubSeq(buf3, 1, Len(buf3) - 1) \o <<LetterM>>

\* colorCode with the test of "reset" before the test of plain
colorCode_reset_first(style) ==
    IF style = StyleReset THEN Reset
    ELSE IF plain \/ style = <<>> THEN <<>>
    ELSE IF style = StyleOff THEN <<>>
    ELSE compile(style)

\* colorCode(style), and ColorCode(style) = colorCode(style).String()
colorCode(style) ==
    IF plain \/ style = <<>> THEN <<>>
    ELSE IF style = StyleReset THEN Reset
    ELSE IF style = StyleOff THEN <<>>
    ELSE compile(style)

(***************************************************************************)
(* The styles ColorCode is called with: a foreground key, its attributes   *)
(* if any, and a background key with its attributes if any.  NoPart stands *)
(* for a part that is not written, with its separator.                     *)
(***************************************************************************)
NoPart == <<0>>
StyleText(fg, fa, bg, ba) ==
    fg \o (IF fa = NoPart THEN <<>> ELSE <<Plus>> \o fa)
       \o (IF bg = NoPart THEN <<>>
           ELSE <<Colon>> \o bg \o (IF ba = NoPart THEN <<>> ELSE <<Plus>> \o ba))

FgKeys == {<<114, 101, 100>>, <<50, 48, 56>>}
FgAttrs == {NoPart, <<98>>, <<104>>, <<98, 104>>, <<104, 98>>, <<98, 98>>, <<117, 66>>, <<66, 117>>, <<98, 66, 117, 105, 115>>, <<115, 105, 117, 66, 98>>}
Backgrounds == {<<NoPart, NoPart>>,
                <<<<119, 104, 105, 116, 101>>, NoPart>>,
                <<<<119, 104, 105, 116, 101>>, <<104>>>>,
                <<<<49, 55>>, NoPart>>}

Styles ==
    {[fg |-> fg, fa |-> fa, bg |-> b[1], ba |-> b[2],
      style |-> StyleText(fg, fa, b[1], b[2])] :
        fg \in FgKeys, fa \in FgAttrs, b \in Backgrounds}
    \cup {[fg |-> NoPart, fa |-> NoPart, bg |-> NoPart, ba |-> NoPart, style |-> s] :
              s \in {<<>>, StyleReset, StyleOff}}

\* ansi.ColorCode(style): ansi_calls keeps the last two calls and what they
\* returned
ColorCode(styles) ==
    /\ \E s \in styles :
          LET call == [fg |-> s.fg, fa |-> s.fa, bg |-> s.bg, ba |-> s.ba,
                       style |-> s.style, code |-> colorCode(s.style)]
          IN ansi_calls' = IF Len(ansi_calls) < 2
                           THEN Append(ansi_calls, call)
                           ELSE <<ansi_calls[2], call>>
    /\ UNCHANGED <<plain, color_call, fn, fn_call>>

\* ansi.DisableColors(disable); the calls kept are those made since
DisableColors ==
    /\ \E disable \in BOOLEAN : plain' = disable
    /\ ansi_calls' = <<>>
    /\ color_call' = NoColorCall
    /\ fn_call' = NoFnCall
    /\ UNCHANGED fn

(***************************************************************************)
(* AnsiSpec: ColorCode is called with the styles of Styles, and            *)
(* DisableColors switches plain mode on and off.                           *)
(***************************************************************************)
sd_vars == <<package_vars, package_lock, journal_vars, lock, th, calls>>

AnsiNext ==
    /\ \/ ColorCode(Styles)
       \/ DisableColors
    /\ UNCHANGED <<sd_vars, caller_vars, stderr_vars, option_vars>>

AnsiSpec == Init /\ [][AnsiNext]_vars

\* the calls kept that were given a foreground key
KeptCalls == {ansi_calls[i] : i \in 1..Len(ansi_calls)}
Descriptors == {c \in KeptCalls : c.fg # NoPart}

\* the index of a named colour
NamedColours == {<<98, 108, 97, 99, 107>>, <<114, 101, 100>>, <<103, 114, 101, 101, 110>>, <<121, 101, 108, 108, 111, 119>>, <<98, 108, 117, 101>>, <<109, 97, 103, 101, 110, 116, 97>>, <<99, 121, 97, 110>>, <<119, 104, 105, 116, 101>>, <<100, 101, 102, 97, 117, 108, 116>>}
ColourIndex(name) ==
    CASE name = <<98, 108, 97, 99, 107>> -> 0 [] name = <<114, 101, 100>> -> 1
      [] name = <<103, 114, 101, 101, 110>> -> 2 [] name = <<121, 101, 108, 108, 111, 119>> -> 3
      [] name = <<98, 108, 117, 101>> -> 4 [] name = <<109, 97, 103, 101, 110, 116, 97>> -> 5
      [] name = <<99, 121, 97, 110>> -> 6 [] name = <<119, 104, 105, 116, 101>> -> 7
      [] name = <<100, 101, 102, 97, 117, 108, 116>> -> 9

\* the flag characters of an attribute string
Flags(a) == IF a = NoPart THEN {} ELSE {a[i] : i \in 1..Len(a)}

\* the modifier codes of a set of flags: bold 1, blink 5, underline 4,
\* inverse 7, strikethrough 9, in that order
ModifierCodes(flags) ==
    SelectSeq(<<<<98, 49>>, <<66, 53>>, <<117, 52>>, <<105, 55>>, <<115, 57>>>>,
              LAMBDA p : p[1] \in flags)

\* codes joined by ';'
RECURSIVE JoinCodes(_)
JoinCodes(codes) ==
    IF codes = <<>> THEN <<>>
    ELSE IF Len(codes) = 1 THEN codes[1]
         ELSE codes[1] \o <<Semicolon>> \o JoinCodes(Tail(codes))

ModifierList(flags) ==
    [i \in 1..Len(ModifierCodes(flags)) |-> <<ModifierCodes(flags)[i][2]>>]

\* two decimal digits or three of a colour code
ColourCode(base, high, flags, name) ==
    LET n == (IF 104 \in flags THEN high ELSE base) + ColourIndex(name)
    IN IF n < 100 THEN <<48 + (n \div 10), 48 + (n % 10)>>
       ELSE <<48 + (n \div 100), 48 + ((n \div 10) % 10), 48 + (n % 10)>>

(***************************************************************************)
(* C19.  With plain mode off, a descriptor with a named foreground and a   *)
(* named background colour compiles to ESC '[', the foreground attribute   *)
(* codes, then 30 (90 if the foreground attributes contain 'h') plus the   *)
(* foreground index, then 40 (100 if the background attributes contain     *)
(* 'h') plus the background index, separated by ';' and ended by 'm' with  *)
(* no ';' before it; "red+b:white+h" compiles to ESC[1;31;107m.            *)
(***************************************************************************)
C19_NamedColoursCompile ==
    ~plain =>
        \A c \in Descriptors :
            /\ (c.fg \in NamedColours /\ c.bg \in NamedColours) =>
                   c.code = <<ESC, 91>>
                            \o JoinCodes(ModifierList(Flags(c.fa))
                                         \o <<ColourCode(30, 90, Flags(c.fa), c.fg),
                                              ColourCode(40, 100, Flags(c.ba), c.bg)>>)
                            \o <<LetterM>>
            /\ c.style = <<114, 101, 100, 43, 98, 58, 119, 104, 105, 116, 101, 43, 104>> =>
                   c.code = <<ESC, 91, 49, 59, 51, 49, 59, 49, 48, 55, LetterM>>

\* "red+b:white+h" was compiled with plain mode off
C19_Witness ==
    /\ ~plain
    /\ \E c \in Descriptors :
          /\ c.style = <<114, 101, 100, 43, 98, 58, 119, 104, 105, 116, 101, 43, 104>>
          /\ c.code = <<ESC, 91, 49, 59, 51, 49, 59, 49, 48, 55, LetterM>>

\* s begins with p
HasPrefix(s, p) == Len(s) >= Len(p) /\ SubSeq(s, 1, Len(p)) = p

\* the modifier codes each followed by ';'
ModifierPrefix(flags) ==
    IF ModifierCodes(flags) = <<>> THEN <<>>
    ELSE JoinCodes(ModifierList(flags)) \o <<Semicolon>>

Color(s, style) ==
    IF plain \/ Len(style) < 1 THEN s
    ELSE colorCode(style) \o s \o Reset

\* ColorFunc(style): the closure returned, with the color it holds;
\* plain is the mode in which it was made
ColorFunc(style) ==
    IF style = <<>>
    THEN [made |-> TRUE, style |-> style, identity |-> TRUE, color |-> <<>>,
          plain |-> plain]
    ELSE [made |-> TRUE, style |-> style, identity |-> FALSE,
          color |-> colorCode(style), plain |-> plain]

\* the closure f applied to s
Closure(f, s) ==
    IF f.identity THEN s
    ELSE IF plain \/ s = <<>> THEN s
    ELSE f.color \o s \o Reset

\* a call of ansi.Color
CallColor(texts, styles) ==
    /\ \E s \in texts, st \in styles :
          color_call' = [made |-> TRUE, s |-> s, style |-> st.style,
                         ret |-> Color(s, st.style)]
    /\ UNCHANGED <<plain, ansi_calls, fn, fn_call>>

\* fn := ansi.ColorFunc(style)
CallColorFunc(styles) ==
    /\ \E st \in styles : fn' = ColorFunc(st.style)
    /\ fn_call' = NoFnCall
    /\ UNCHANGED <<plain, ansi_calls, color_call>>

\* fn(s)
CallClosure(texts) ==
    /\ fn.made
    /\ \E s \in texts : fn_call' = [made |-> TRUE, s |-> s, ret |-> Closure(fn, s)]
    /\ UNCHANGED <<plain, ansi_calls, color_call, fn>>

(***************************************************************************)
(* ColorSpec: ColorCode, Color, ColorFunc and the closure are called, and  *)
(* DisableColors switches plain mode, in any order.                        *)
(***************************************************************************)
ColorTexts == {<<>>, <<102, 111, 111>>}
ColorStyles ==
    {st \in Styles : st.style \in {<<>>, StyleReset, StyleOff, <<114, 101, 100>>,
                                   <<114, 101, 100, 43, 98, 104, 58, 119, 104, 105, 116, 101>>}}

ColorNext ==
    /\ \/ ColorCode(ColorStyles)
       \/ CallColor(ColorTexts, ColorStyles)
       \/ CallColorFunc(ColorStyles)
       \/ CallClosure(ColorTexts)
       \/ DisableColors
    /\ UNCHANGED <<sd_vars, caller_vars, stderr_vars, option_vars>>

ColorSpec == Init /\ [][ColorNext]_vars

(***************************************************************************)
(* C21.  While plain mode is on, ColorCode returns the empty sequence for  *)
(* every style, "reset" included, and Color returns its text unchanged for *)
(* every style; "off" compiles to the empty sequence in both modes.        *)
(***************************************************************************)
C21_PlainSuppressesColour ==
    /\ plain => \A c \in KeptCalls : c.code = <<>>
    /\ (plain /\ color_call.made) => color_call.ret = color_call.s
    /\ \A c \in KeptCalls : c.style = StyleOff => c.code = <<>>

\* in plain mode "reset" was compiled and a text was coloured with a style
C21_Witness ==
    /\ plain
    /\ \E c \in KeptCalls : c.style = StyleReset /\ c.code = <<>>
    /\ color_call.made
    /\ color_call.style = <<114, 101, 100, 43, 98, 104, 58, 119, 104, 105, 116, 101>>
    /\ color_call.s = <<102, 111, 111>>
    /\ color_call.ret = <<102, 111, 111>>

(***************************************************************************)
(* C22.  A closure made by ColorFunc with a non-empty style, applied to a  *)
(* non-empty text at any later time, returns the text unchanged when plain *)
(* mode is on at that time, and the text after a non-empty escape prefix   *)
(* and before the reset code when plain mode is off at that time,          *)
(* whatever the mode was when the closure was made.                        *)
(***************************************************************************)
C22_ClosureFollowsPresentMode ==
    (fn.made /\ fn.style # <<>> /\ fn_call.made /\ fn_call.s # <<>>) =>
        IF plain
        THEN fn_call.ret = fn_call.s
        ELSE /\ Len(fn_call.ret) > Len(fn_call.s) + Len(Reset)
             /\ fn_call.ret[1] = ESC
             /\ SubSeq(fn_call.ret, Len(fn_call.ret) - Len(fn_call.s) - Len(Reset) + 1,
                       Len(fn_call.ret)) = fn_call.s \o Reset

(***************************************************************************)
(* KeySpec: ColorCode is called with styles whose colour keys are names,   *)
(* integers inside and outside 0..255, and a key Colors does not hold.     *)
(***************************************************************************)
ColourKeys == {<<114, 101, 100>>, <<55>>, <<50, 53, 53>>, <<50, 53, 54>>, <<45, 53>>, <<112, 117, 114, 112, 108, 101>>}
KeyStyles ==
    {[fg |-> fg, fa |-> NoPart, bg |-> bg, ba |-> NoPart,
      style |-> StyleText(fg, NoPart, bg, NoPart)] :
        fg \in ColourKeys, bg \in {NoPart, <<49, 55>>, <<51, 48, 48>>, <<112, 117, 114, 112, 108, 101>>}}

KeyNext ==
    /\ \/ ColorCode(KeyStyles)
       \/ DisableColors
    /\ UNCHANGED <<sd_vars, caller_vars, stderr_vars, option_vars>>

KeySpec == Init /\ [][KeyNext]_vars

\* the key is the decimal numeral of an integer in 0..255
IsIndex256(key) == \E n \in 0..255 : key = Decimal(n)

\* the codes a colour key stands for: 38;5;n or 48;5;n for an index of the
\* 256 colours, base plus index for a named colour, base plus 0 otherwise
KeyCodes(key, extended, base) ==
    IF IsIndex256(key) THEN <<extended, <<53>>, key>>
    ELSE IF key \in NamedColours THEN <<FormatInt(base + ColourIndex(key))>>
    ELSE <<FormatInt(base)>>

(***************************************************************************)
(* C23.  A colour key is compiled as an index of the 256 colours           *)
(* (38;5;n for the foreground, 48;5;n for the background) only when it is  *)
(* an integer in 0..255; every other key that is not a named colour,       *)
(* integers below 0 or above 255 included, compiles as index 0 of the      *)
(* named colours.                                                          *)
(***************************************************************************)
C23_IndexOnlyWithinRange ==
    ~plain =>
        \A c \in Descriptors :
            (c.fa = NoPart /\ c.ba = NoPart) =>
                c.code = <<ESC, 91>>
                         \o JoinCodes(KeyCodes(c.fg, <<51, 56>>, 30)
                                      \o (IF c.bg = NoPart THEN <<>>
                                          ELSE KeyCodes(c.bg, <<52, 56>>, 40)))
                         \o <<LetterM>>

(***************************************************************************)
(* Options as values.  An option is a function of the Journal that sets    *)
(* one thing and returns the option that sets the previous value;          *)
(* j.Option(opt) applies it under j.lock and returns what it returned.     *)
(* Settings is what the options write: the instance's priority, writer,    *)
(* remove and default_fields, and the package's default_remove_ansi_escape,*)
(* default_writer and default_disable_journal.                             *)
(***************************************************************************)
Settings ==
    [priority |-> priority, writer |-> writer, remove |-> remove,
     default_fields |-> default_fields,
     default_remove_ansi_escape |-> default_remove_ansi_escape,
     default_writer |-> default_writer,
     default_disable_journal |-> default_disable_journal]

\* o.default_fields[name]: nil for a missing name
FieldOrNil(fields, name) == IF name \in DOMAIN fields THEN fields[name] ELSE NoValue

\* opt(o): the settings it leaves and the option it returns
ApplyOption(opt, o) ==
    CASE opt.kind = "Set_priority" ->
           [o |-> [o EXCEPT !.priority = opt.arg],
            previous |-> [kind |-> "Set_priority", arg |-> o.priority]]
      [] opt.kind = "Set_writer" ->
           [o |-> [o EXCEPT !.writer = opt.arg],
            previous |-> [kind |-> "Set_writer", arg |-> o.writer]]
      [] opt.kind = "Set_remove_ansi" ->
           [o |-> [o EXCEPT !.remove = opt.arg],
            previous |-> [kind |-> "Set_remove_ansi", arg |-> o.remove]]
      [] opt.kind = "Set_default_remove_ansi" ->
           [o |-> [o EXCEPT !.default_remove_ansi_escape = opt.arg,
                            !.remove = opt.arg],
            previous |-> [kind |-> "Set_default_remove_ansi",
                          arg |-> o.default_remove_ansi_escape]]
      [] opt.kind = "Set_default_writer" ->
           [o |-> [o EXCEPT !.default_writer = opt.arg],
            previous |-> [kind |-> "Set_default_writer", arg |-> o.default_writer]]
      [] opt.kind = "Set_default_disable_journal" ->
           [o |-> [o EXCEPT !.default_disable_journal = opt.arg],
            previous |-> [kind |-> "Set_default_disable_journal",
                          arg |-> o.default_disable_journal]]
      [] opt.kind = "Set_field" ->
           IF ~valid_field(opt.name)
           THEN [o |-> o,
                 previous |-> [kind |-> "Set_field", name |-> <<>>, arg |-> NoValue]]
           ELSE [o |-> [o EXCEPT !.default_fields =
                            IF opt.arg = NoValue
                            THEN MapDelete(o.default_fields, opt.name)
                            ELSE MapSet(o.default_fields, opt.name, opt.arg)],
                 previous |-> [kind |-> "Set_field", name |-> opt.name,
                               arg |-> FieldOrNil(o.default_fields, opt.name)]]

\* the options whose functions take package_lock
TakesPackageLock(opt) ==
    opt.kind \in {"Set_default_remove_ansi", "Set_default_writer",
                  "Set_default_disable_journal"}

\* the options j.Option is called with
Options ==
    {[kind |-> "Set_priority", arg |-> p] : p \in {Log_info, Log_err}}
    \cup {[kind |-> "Set_writer", arg |-> w] : w \in {NilWriter, W}}
    \cup {[kind |-> "Set_remove_ansi", arg |-> rm] : rm \in {0, Remove_journal}}
    \cup {[kind |-> "Set_default_remove_ansi", arg |-> rm] : rm \in {0, Remove_writer}}
    \cup {[kind |-> "Set_default_writer", arg |-> w] : w \in {NilWriter, W}}
    \cup {[kind |-> "Set_default_disable_journal", arg |-> b] : b \in BOOLEAN}
    \cup {[kind |-> "Set_field", name |-> a[1], arg |-> a[2]] : a \in SetFieldArgs}

\* the variables set from the settings an option left
SetSettings(o) ==
    /\ priority' = o.priority
    /\ writer' = o.writer
    /\ remove' = o.remove
    /\ default_fields' = o.default_fields
    /\ default_remove_ansi_escape' = o.default_remove_ansi_escape
    /\ default_writer' = o.default_writer
    /\ default_disable_journal' = o.default_disable_journal
    /\ UNCHANGED <<id128, package_lock, add_go_code_fields, stack_skip>>

\* previous := j.Option(opt)
Option(t, opts) ==
    /\ MayCall(t)
    /\ lock = 0
    /\ \E opt \in opts :
          /\ TakesPackageLock(opt) => package_lock = 0
          /\ SetSettings(ApplyOption(opt, Settings).o)
          /\ opt_call' = [stage |-> "applied", opt |-> opt,
                          previous |-> ApplyOption(opt, Settings).previous,
                          before |-> Settings]
    /\ th' = [th EXCEPT ![t] = Configured]
    /\ UNCHANGED lock

\* j.Option(previous), with the option the call before returned
OptionPrevious(t) ==
    /\ MayCall(t)
    /\ lock = 0
    /\ opt_call.stage = "applied"
    /\ TakesPackageLock(opt_call.previous) => package_lock = 0
    /\ SetSettings(ApplyOption(opt_call.previous, Settings).o)
    /\ opt_call' = [opt_call EXCEPT !.stage = "undone"]
    /\ th' = [th EXCEPT ![t] = Configured]
    /\ UNCHANGED lock

(***************************************************************************)
(* OptionSpec: one goroutine applies options to the Journal, and applies   *)
(* the option a call returned right after that call.                       *)
(***************************************************************************)
OptionNext ==
    /\ \/ Option(1, Options)
       \/ OptionPrevious(1)
    /\ UNCHANGED <<calls, caller_vars, stderr_vars, ansi_vars>>

OptionSpec == Init /\ [][OptionNext]_vars

(***************************************************************************)
(* C24.  The option returned by j.Option(opt), applied to the same         *)
(* Journal, undoes opt: after j.Option(j.Option(opt)) the settings of the  *)
(* instance and of the package are what they were before the first call,   *)
(* for every option constructor and every starting state.                  *)
(***************************************************************************)
C24_ReturnedOptionUndoes ==
    opt_call.stage = "undone" => Settings = opt_call.before

\* a name of uppercase letters, digits and underscores, not beginning with
\* an underscore
UpperDigitUnderscore(k) ==
    /\ Len(k) >= 1
    /\ k[1] # 95
    /\ \A i \in 1..Len(k) : k[i] \in 65..90 \/ k[i] \in 48..57 \/ k[i] = 95

HasLowercase(k) == \E i \in 1..Len(k) : k[i] \in 97..122

(***************************************************************************)
(* C25.  Send accepts a field name only if it consists of uppercase        *)
(* letters, digits and underscores and does not begin with an underscore;  *)
(* a name with a lowercase letter in any position is rejected with an      *)
(* error.                                                                  *)
(***************************************************************************)
C25_LowercaseRejected ==
    \A t \in Threads :
        (Finished(t) /\ th[t].op = "send" /\ ~ReturnedDisabled(t)) =>
            /\ Transported(t) =>
                   \A k \in DOMAIN th[t].given : UpperDigitUnderscore(k)
            /\ (\E k \in DOMAIN th[t].given : HasLowercase(k)) =>
                   /\ th[t].ret # Nil
                   /\ th[t].sent = NoSend

(***************************************************************************)
(* Set_message_id(uuid) in two steps: package_lock.Lock(), and the write   *)
(* of id128 with the deferred package_lock.Unlock().                       *)
(***************************************************************************)
Set_message_id_lock(t) ==
    /\ MayCall(t)
    /\ package_lock = 0
    /\ package_lock' = t
    /\ th' = [th EXCEPT ![t] = [Idle EXCEPT !.pc = "set_message_id", !.op = "config"]]
    /\ UNCHANGED <<package_vars, journal_vars, lock>>

Set_message_id_write(t) ==
    /\ th[t].pc = "set_message_id"
    /\ \E uuid \in {<<>>, <<117>>} :
          id128' = IF uuid = <<>> THEN NilId ELSE IdOf(uuid)
    /\ package_lock' = 0
    /\ th' = [th EXCEPT ![t] = Configured]
    /\ UNCHANGED <<default_writer, default_remove_ansi_escape,
                   default_disable_journal, journal_vars, lock>>

(***************************************************************************)
(* RaceSpec: the goroutines of Threads emit on the shared Journal and call *)
(* Set_message_id, a step at a time.                                       *)
(***************************************************************************)
RaceNext ==
    /\ \E t \in Threads :
          \/ Emit(t, IdTexts, {Log_info})
          \/ Set_message_id_lock(t)
          \/ Set_message_id_write(t)
          \/ Step(t)
    /\ UNCHANGED <<calls, apart_vars>>

RaceSpec == Init /\ [][RaceNext]_vars

\* the step in which goroutine t runs load_defaults, which reads id128
LoadDefaultsStep(t) ==
    /\ th[t].pc = "idle"
    /\ th'[t].pc \in {"send", "copy"}
    /\ th'[t].op \in EmitOps

\* a goroutine other than t is inside Set_message_id, before its write
WriterInside(t) ==
    \E u \in Threads \ {t} : th[u].pc = "set_message_id" /\ package_lock = u

(***************************************************************************)
(* C26.  Every read and every write of the package's configuration is      *)
(* made with package_lock held, so no emission reads such a value while a  *)
(* Set_* call that writes it is under way: the read of id128 in            *)
(* load_defaults is made by the holder of package_lock, and never while    *)
(* another goroutine is inside Set_message_id.                             *)
(***************************************************************************)
C26_ConfigurationReadUnderLock ==
    [][\A t \in Threads :
           LoadDefaultsStep(t) => (package_lock = t /\ ~WriterInside(t))]_vars

(***************************************************************************)
(* j.Option(opt) in two steps: o.lock.Lock(), then the option's function   *)
(* (which takes and releases package_lock when it sets a package value)    *)
(* with the deferred o.lock.Unlock().  The position tells whether the      *)
(* function of the option given takes package_lock.                        *)
(***************************************************************************)
Option_lock(t, opts) ==
    /\ MayCall(t)
    /\ lock = 0
    /\ lock' = t
    /\ \E opt \in opts :
          th' = [th EXCEPT ![t] = [Idle EXCEPT !.op = "config",
                                        !.pc = IF TakesPackageLock(opt)
                                               THEN "option_package"
                                               ELSE "option"]]
    /\ UNCHANGED <<package_vars, package_lock, journal_vars>>

Option_apply(t, opts) ==
    /\ th[t].pc \in {"option", "option_package"}
    /\ \E opt \in opts :
          /\ TakesPackageLock(opt) <=> th[t].pc = "option_package"
          /\ TakesPackageLock(opt) => package_lock = 0
          /\ SetSettings(ApplyOption(opt, Settings).o)
    /\ lock' = 0
    /\ th' = [th EXCEPT ![t] = Configured]

\* New_journal_m(nil): package_lock.Lock(), the new Journal made from the
\* package's defaults, package_lock.Unlock(); the new Journal, and the lock
\* in it that Set_default_fields takes, are the caller's alone
New_journal_m_private(t) ==
    /\ MayCall(t)
    /\ package_lock = 0
    /\ th' = [th EXCEPT ![t] = Configured]
    /\ UNCHANGED <<package_vars, package_lock, journal_vars, lock>>

(***************************************************************************)
(* LockSpec: the goroutines of Threads make journals, apply options, set   *)
(* the message identifier and emit on the shared Journal, MaxCalls calls   *)
(* in all, each call a lock step at a time.  A goroutine that can take     *)
(* its next step inside a call takes it in the end.                        *)
(***************************************************************************)
LockOptions ==
    {[kind |-> "Set_writer", arg |-> W],
     [kind |-> "Set_default_writer", arg |-> W],
     [kind |-> "Set_default_disable_journal", arg |-> TRUE]}

\* the steps inside a call
Progress(t) ==
    /\ \/ Step(t)
       \/ Option_apply(t, LockOptions)
       \/ Set_message_id_write(t)
    /\ UNCHANGED <<calls, apart_vars>>

LockNext ==
    /\ \E t \in Threads :
          \/ /\ calls < MaxCalls
             /\ calls' = calls + 1
             /\ \/ Emit(t, IdTexts, {Log_err})
                \/ CallSend(t, FewSendMaps)
                \/ Option_lock(t, LockOptions)
                \/ Set_message_id_lock(t)
                \/ New_journal_m_private(t)
             /\ UNCHANGED apart_vars
          \/ Progress(t)

LockSpec ==
    /\ Init
    /\ [][LockNext]_vars
    /\ \A t \in Threads : WF_vars(Progress(t))

\* some goroutine is inside a call
SomeInside == \E t \in Threads : th[t].pc # "idle"

(***************************************************************************)
(* C27.  No deadlock among goroutines that make journals, apply options,   *)
(* change package settings and emit on a shared Journal: while a goroutine *)
(* is inside a call some goroutine inside a call can take its next step;   *)
(* no goroutine takes j.lock while it holds package_lock, so a goroutine   *)
(* holding both took j.lock first; and every call returns, with every      *)
(* lock it took released.                                                  *)
(***************************************************************************)
C27_NoDeadlock ==
    /\ [](SomeInside => \E t \in Threads : ENABLED Progress(t))
    /\ [][\A t \in Threads : (lock' = t /\ lock # t) => package_lock # t]_vars
    /\ [](\A t \in Threads : th[t].pc = "idle" => (lock # t /\ package_lock # t))
    /\ \A t \in Threads : (th[t].pc # "idle") ~> (th[t].pc = "idle")
    /\ \A t \in Threads : (lock = t) ~> (lock # t)
    /\ \A t \in Threads : (package_lock = t) ~> (package_lock # t)

\* a goroutine holds both locks inside Send while the other waits for j.lock
C27_Witness ==
    \E t, u \in Threads :
        /\ t # u
        /\ lock = t /\ package_lock = t
        /\ th[t].pc = "send_mirror"
        /\ th[u].pc = "send"

\* goroutine t is inside a plain or overlay emission
InEmission(t) == th[t].pc # "idle" /\ th[t].op \in EmitOps

\* the fields of j.default_fields under names other than MESSAGE, PRIORITY
\* and MESSAGE_ID
Registry ==
    [k \in DOMAIN default_fields \ {Sd_message, sd_priority, sd_message_id}
        |-> default_fields[k]]

(***************************************************************************)
(* C28.  An emission reads j.default_fields by copy: no step of a plain    *)
(* or overlay emission, from the call to its return with or without an     *)
(* error, changes the fields the Journal holds under names other than      *)
(* MESSAGE, PRIORITY and MESSAGE_ID.                                       *)
(***************************************************************************)
C28_RegistryUnchangedByEmission ==
    [][\A t \in Threads :
          (InEmission(t) \/ InEmission(t)') => Registry' = Registry]_vars

(***************************************************************************)
(* C29.  package_lock is held only for short reads and writes of the       *)
(* package's values: the goroutine that writes to the mirror writer, or    *)
(* calls sd_journal_sendv, does not hold package_lock while it does, so    *)
(* Set_message_id and emissions of other goroutines never wait for the     *)
(* length of a write.                                                      *)
(***************************************************************************)
C29_NoWriteUnderPackageLock ==
    [][\A t \in Threads :
          (SendMirror(t) \/ SendJournal(t)) => package_lock # t]_vars

\* the name holds the separator byte '='
HasSeparator(k) == \E i \in 1..Len(k) : k[i] = 61

(***************************************************************************)
(* C30.  No name that valid_field accepts holds the separator '=': the     *)
(* names of the records handed to sd_journal_sendv hold none, and each     *)
(* record, split at its first '=', gives back the name it was encoded      *)
(* under and, for a string or []byte field other than MESSAGE, the value   *)
(* that was given.                                                         *)
(***************************************************************************)
C30_RecordsDecodeUnambiguously ==
    \A t \in Threads :
        Transported(t) =>
            \A k \in DOMAIN th[t].sent.iov :
                /\ ~HasSeparator(k)
                /\ Decoded(th[t].sent.iov[k]).name = k
                /\ (/\ k \in DOMAIN th[t].given
                    /\ k # Sd_message
                    /\ th[t].given[k].kind \in {"string", "bytes"}) =>
                       Decoded(th[t].sent.iov[k]).value = th[t].given[k].v

=============================================================================
